---------------------------- MODULE Spec2Model ----------------------------
(***************************************************************************)
(* Model of the Riksdagen ingestion program src/fetch-parliamentdata.py:   *)
(* setup_database, fetch_speech_text_from_url, populate_database and main. *)
(*                                                                         *)
(* Text values are sequences of one-character strings, so that the         *)
(* character-level code of the identity resolver (filter, replace, lower,  *)
(* slice) is computed as the program computes it.                          *)
(*                                                                         *)
(* The SQLite store is modelled by two copies of its two tables:           *)
(*   db  the committed (durable) content of the database file,             *)
(*   tx  the content as seen through the open connection, which is db plus *)
(*       the rows written since the last commit / rollback.                *)
(* Python's sqlite3 opens a transaction implicitly before an INSERT;       *)
(* conn.commit() makes tx durable, conn.rollback() and the end of the      *)
(* process (conn.close() without commit, or a kill) drop what is pending.  *)
(***************************************************************************)
EXTENDS Integers, Sequences, FiniteSets, TLC

(***************************************************************************)
(* Bounds of the model.                                                    *)
(***************************************************************************)
\* longest speech list the list endpoint returns
MaxList == 2
\* number of program runs (processes) in a behaviour
MaxRuns == 2
\* number of Hansard files in the input directory of split_hansard
MaxFiles == 3
\* length of the long names, parties and ids given to the identity resolver
MaxName == 70

(***************************************************************************)
(* Characters and the string methods the program uses.                     *)
(***************************************************************************)
UpperChars == {"A", "B", "S", "U", "X", "Y"}
LowerChars == {"a", "b", "c", "d", "e", "g", "h", "i", "k", "m", "n", "o",
               "p", "r", "s", "t", "u", "w", "x", "y"}
DigitChars == {"0", "1", "2", "3", "4", "5", "7"}
Whitespace == {" ", "\n"}

\* str.isalnum() for one character
IsAlnum(c) == c \in UpperChars \cup LowerChars \cup DigitChars

\* str.lower() for one character
LowerChar(c) ==
    CASE c = "A" -> "a"
      [] c = "B" -> "b"
      [] c = "S" -> "s"
      [] c = "U" -> "u"
      [] c = "X" -> "x"
      [] c = "Y" -> "y"
      [] OTHER   -> c

\* str.lower()
Lower(s) == [k \in 1..Len(s) |-> LowerChar(s[k])]

\* ''.join(c for c in s if keep(c)), for the two filters of populate_database
RECURSIVE KeepAlnumOrSpace(_)
KeepAlnumOrSpace(s) ==
    IF s = <<>> THEN <<>>
    ELSE (IF IsAlnum(Head(s)) \/ Head(s) = " " THEN <<Head(s)>> ELSE <<>>)
         \o KeepAlnumOrSpace(Tail(s))

RECURSIVE KeepAlnum(_)
KeepAlnum(s) ==
    IF s = <<>> THEN <<>>
    ELSE (IF IsAlnum(Head(s)) THEN <<Head(s)>> ELSE <<>>)
         \o KeepAlnum(Tail(s))

\* str.replace(' ', '_')
SpacesToUnderscores(s) == [k \in 1..Len(s) |-> IF s[k] = " " THEN "_" ELSE s[k]]

\* s[:n]
Prefix(s, n) == IF Len(s) <= n THEN s ELSE SubSeq(s, 1, n)

\* str.strip()
RECURSIVE LStrip(_)
LStrip(s) ==
    IF s # <<>> /\ Head(s) \in Whitespace THEN LStrip(Tail(s)) ELSE s

RECURSIVE RStrip(_)
RStrip(s) ==
    IF s # <<>> /\ s[Len(s)] \in Whitespace
    THEN RStrip(SubSeq(s, 1, Len(s) - 1)) ELSE s

Strip(s) == RStrip(LStrip(s))

(***************************************************************************)
(* get_text_from_element: an element of the list is a record whose domain  *)
(* holds the child tags that are present; a child's value is its text, and *)
(* <<>> stands for a child without text.                                   *)
(***************************************************************************)
GetText(el, tag, default) ==
    IF tag \in DOMAIN el /\ el[tag] # <<>> THEN Strip(el[tag]) ELSE default

(***************************************************************************)
(* Identity resolution of populate_database.                               *)
(***************************************************************************)
\* the length the generated iid is cut to
IidMaxLen == 60

GenPrefix == <<"g", "e", "n", "_">>
UnknownParty == <<"o", "k", "a", "n", "t", "p", "a", "r", "t", "i">>

\* A faulty variant of GenIid: the generated iid is not cut.
GenIidUncut(talare, parti) ==
    LET s_talare == Lower(SpacesToUnderscores(KeepAlnumOrSpace(talare)))
        s_parti  == IF parti # <<>> THEN Lower(KeepAlnum(parti)) ELSE UnknownParty
    IN  GenPrefix \o s_talare \o <<"_">> \o s_parti

GenIid(talare, parti) ==
    LET s_talare == Lower(SpacesToUnderscores(KeepAlnumOrSpace(talare)))
        s_parti  == IF parti # <<>> THEN Lower(KeepAlnum(parti)) ELSE UnknownParty
    IN  Prefix(GenPrefix \o s_talare \o <<"_">> \o s_parti, IidMaxLen)


(***************************************************************************)
(* The speech list of the list endpoint.  The elements below are the       *)
(* <anforande> elements the model draws lists from.                        *)
(***************************************************************************)
ASmith == <<"A", ".", " ", "S", "m", "i", "t", "h">>
Bo     == <<"B", "o">>
Ada    == <<"A", "d", "a">>
PartyX == <<"X">>
PartyY == <<"Y">>
Iid7   == <<"7">>
Anf1   == <<"a", "1">>
Anf2   == <<"a", "2">>
Anf3   == <<"a", "3">>
Url1   == <<"u", "1">>
Url2   == <<"u", "2">>
Url3   == <<"u", "3">>
Day1   == <<"0", "1">>
Day2   == <<"0", "2">>
Day3   == <<"0", "3">>
Day4   == <<"0", "4">>
Day5   == <<"0", "5">>
Rubrik == <<"d", "e", "b", "a", "t", "t">>

\* the document fields every element carries
DokFields == [dok_id |-> <<"h", "1">>, dok_titel |-> <<"p", "r", "o", "t">>]

\* a speaker without iid (the child is there, without text), first speech
ElSmith1 == [iid |-> <<>>, talare |-> ASmith, parti |-> PartyX,
             anforande_id |-> Anf1, anforande_url_xml |-> Url1,
             avsnittsrubrik |-> Rubrik, dok_datum |-> Day4] @@ DokFields
\* the same speaker, no iid child at all, padded name, second speech
ElSmith2 == [talare |-> <<" ">> \o ASmith \o <<"\n">>, parti |-> PartyX,
             anforande_id |-> Anf2, anforande_url_xml |-> Url2,
             avsnittsrubrik |-> Rubrik, dok_datum |-> Day2] @@ DokFields
\* a speaker with iid 7 for the speech key of ElSmith1, at another URL
ElBo     == [iid |-> Iid7, talare |-> Bo, parti |-> PartyY,
             anforande_id |-> Anf1, anforande_url_xml |-> Url3,
             avsnittsrubrik |-> Rubrik, dok_datum |-> Day1] @@ DokFields
\* iid 7 again under another name and without party and topic; the detail
\* URL is the one of ElSmith2
ElAda    == [iid |-> Iid7, talare |-> Ada, parti |-> <<>>,
             anforande_id |-> Anf3, anforande_url_xml |-> Url2,
             dok_datum |-> Day5] @@ DokFields
\* an element without speaker name
ElNoName == [iid |-> Iid7, parti |-> PartyY,
             anforande_id |-> Anf3, anforande_url_xml |-> Url3,
             avsnittsrubrik |-> Rubrik, dok_datum |-> Day3] @@ DokFields

Elements == {ElSmith1, ElSmith2, ElBo, ElAda, ElNoName}

\* elements without anforande_id and with a blank anforande_url_xml; the
\* lists of the model do not hold them, the loop body is applied to them
ElNoKey == [iid |-> Iid7, talare |-> Bo, parti |-> PartyY,
            anforande_url_xml |-> Url1,
            avsnittsrubrik |-> Rubrik, dok_datum |-> Day3] @@ DokFields
ElNoUrl == [iid |-> <<>>, talare |-> ASmith, parti |-> PartyX,
            anforande_id |-> Anf2, anforande_url_xml |-> <<" ">>,
            avsnittsrubrik |-> Rubrik, dok_datum |-> Day3] @@ DokFields

AllElements == Elements \cup {ElNoKey, ElNoUrl}

\* the day a date of the model stands for
DayNumber(datum) ==
    CASE datum = Day1 -> 1
      [] datum = Day2 -> 2
      [] datum = Day3 -> 3
      [] datum = Day4 -> 4
      [] OTHER        -> 5

\* The list URL asks for sort=datum&sortorder=desc (line 110): the list with
\* el put at the place of its date, newest first.
RECURSIVE SortedInsert(_, _)
SortedInsert(list, el) ==
    IF list = <<>> THEN <<el>>
    ELSE IF DayNumber(el.dok_datum) >= DayNumber(Head(list).dok_datum)
    THEN <<el>> \o list
    ELSE <<Head(list)>> \o SortedInsert(Tail(list), el)

(***************************************************************************)
(* Lines 150-158: the fields populate_database reads from one element.     *)
(***************************************************************************)
DefaultRubrik == <<"E", "j">>

ElementFields(el) ==
    [iid               |-> GetText(el, "iid", <<>>),
     talare            |-> GetText(el, "talare", <<>>),
     parti             |-> GetText(el, "parti", <<>>),
     anforande_id      |-> GetText(el, "anforande_id", <<>>),
     anforande_url_xml |-> GetText(el, "anforande_url_xml", <<>>),
     dok_id            |-> GetText(el, "dok_id", <<>>),
     dok_datum         |-> GetText(el, "dok_datum", <<>>),
     avsnittsrubrik    |-> GetText(el, "avsnittsrubrik", DefaultRubrik),
     dok_titel         |-> GetText(el, "dok_titel", <<>>)]

\* the fields of every element of the model, computed once
FieldsOf == [el \in AllElements |-> ElementFields(el)]

\* A faulty variant of CoreMissing: only the speaker's name is required.
CoreMissingName(f) == f.talare = <<>>

\* line 161: the core fields without which the element is skipped
CoreMissing(f) ==
    f.talare = <<>> \/ f.anforande_id = <<>> \/ f.anforande_url_xml = <<>>

\* A faulty variant of ResolveIid: the synthesized id also depends on the
\* speech the element is about.
ResolveIidPerSpeech(f) ==
    IF f.iid # <<>> THEN f.iid
    ELSE GenIid(f.talare, f.parti) \o f.anforande_id

\* lines 170-176: the iid the rows are stored under
ResolveIid(f) == IF f.iid # <<>> THEN f.iid ELSE GenIid(f.talare, f.parti)

(***************************************************************************)
(* fetch_speech_text_from_url.  resp is what the detail endpoint answers:  *)
(* "failure" (fetch_xml_data returns None: timeout, connection error or    *)
(* non-2xx), "malformed" (bytes that do not parse), "notext" (a document   *)
(* without anforandetext) or "ok" (the document with the speech text).     *)
(***************************************************************************)
Responses == {"failure", "malformed", "notext", "ok"}

MsgNoUrl     == "URL for anforande-XML saknas."
MsgNoFetch   == "Kunde inte hamta XML for specifikt anforande."
MsgParse     == "Fel vid XML-analys: ParseError"
MsgNotFound  == "Anforandetext kunde inte hittas."

\* the speech text the document at url holds
DetailText(url) ==
    CASE url = Url1 -> "text of u1"
      [] url = Url2 -> "text of u2"
      [] OTHER      -> "text of u3"

FetchSpeechText(url, resp) ==
    IF url = <<>> THEN MsgNoUrl
    ELSE IF resp = "failure" THEN MsgNoFetch
    ELSE IF resp = "malformed" THEN MsgParse
    ELSE IF resp = "notext" THEN MsgNotFound
    ELSE DetailText(url)

(***************************************************************************)
(* The tables of setup_database and the statements run against them.       *)
(***************************************************************************)
EmptyStore == [members |-> {}, speeches |-> {}]

\* A faulty variant of SetupDatabase: the tables are dropped and created anew.
SetupDatabaseAnew(d) == EmptyStore

\* setup_database on the database file d: CREATE TABLE IF NOT EXISTS creates
\* the empty tables of a new file and leaves the rows of existing tables
SetupDatabase(d) == d

MemberRow(iid, f) == [iid |-> iid, name |-> f.talare, party |-> f.parti]

SpeechRow(iid, f, text) ==
    [anforande_id |-> f.anforande_id, iid |-> iid, dok_id |-> f.dok_id,
     dok_datum |-> f.dok_datum, avsnittsrubrik |-> f.avsnittsrubrik,
     dok_titel |-> f.dok_titel, anforandetext |-> text,
     anforande_url_xml |-> f.anforande_url_xml]

\* members.iid is the PRIMARY KEY: the row with this iid, if any
MemberExists(members, iid) == \E r \in members : r.iid = iid

\* A faulty variant of InsertOrIgnoreMember: INSERT OR REPLACE, which puts
\* the new row in the place of the one that holds the iid.
InsertOrReplaceMember(members, row) ==
    {r \in members : r.iid # row.iid} \cup {row}

\* INSERT OR IGNORE INTO members: a row whose iid is taken is ignored
InsertOrIgnoreMember(members, row) ==
    IF MemberExists(members, row.iid) THEN members ELSE members \cup {row}

\* A faulty variant of SpeechExists: the lookup compares another column.
SpeechExistsByUrl(speeches, anforande_id) ==
    \E r \in speeches : r.anforande_url_xml = anforande_id

\* the lookup on the primary key speeches.anforande_id
SpeechExists(speeches, anforande_id) ==
    \E r \in speeches : r.anforande_id = anforande_id

\* anforande_url_xml is UNIQUE
UrlExists(speeches, url) == \E r \in speeches : r.anforande_url_xml = url

\* INSERT INTO speeches raises IntegrityError when a constraint of the table
\* is violated
SpeechIntegrityError(speeches, row) ==
    \/ SpeechExists(speeches, row.anforande_id)
    \/ UrlExists(speeches, row.anforande_url_xml)

(***************************************************************************)
(* The state of the program and of its environment.                        *)
(***************************************************************************)
VARIABLES
    upstream,   \* the <anforande> elements the list endpoint returns
    db,         \* the database file: the committed members and speeches
    tx,         \* the tables as the open connection sees them
    pc,         \* "idle": no process; "loop": in the for loop of
                \* populate_database; "report": populate_database returned
    idx,        \* the list position the loop handles next (i + 1)
    counts,     \* speeches_processed_count, speeches_added_to_db_count,
                \* members_added_to_db_count
    summary,    \* the three numbers printed at the end of the run
    runs,       \* processes started so far
    last,       \* observation: what happened to the element handled last
    run,        \* observation: failures met by the current run
    past        \* observation: what earlier runs left behind

ingestVars ==
    <<upstream, db, tx, pc, idx, counts, summary, runs, last, run, past>>

\* The identity resolver taken alone: the values one call is given and what
\* it returns.
VARIABLES
    arg,        \* iid_from_xml, talare and parti of the call (applied: a call
                \* was made)
    res         \* db_iid after lines 170-176

fnVars == <<arg, res>>

\* split_hansard of src/uk/uk_member_speeches.py
VARIABLES
    inFiles,    \* the files glob.iglob yields, in the order it yields them
    inputRoot,  \* what the path --input-dir names: "dir", a directory;
                \* "file", a file; "missing", nothing
    outMade,    \* os.makedirs(out) of line 10 was called
    cleared,    \* observation: ids of the speech elements elem.clear() emptied
    spc,        \* "off": not run; "start": split_hansard was called;
                \* "parsing": in the loops of lines 21-28;
                \* "raised": an exception left split_hansard; "done": returned
    sfile,      \* position in inFiles of the file being parsed
    sitem,      \* position in that file of the next parse event
    handles,    \* the keys of the dict handles
    outFiles    \* the output directory: file name -> what was written to it

splitVars ==
    <<inFiles, inputRoot, outMade, cleared, spc, sfile, sitem, handles,
      outFiles>>

\* The programs that read whole XML trees: fr_build_db, uk_build_db and
\* fr_deputy_speeches
VARIABLES
    prog,               \* the program that runs, "off" when none does
    listing,            \* the files of the input directory, in the order
                        \* the directory lists them
    xml_files,          \* the list the loop over the files goes through
    tpc,                \* "off"; "list": before the list is built; "files":
                        \* in the loop over the files; "write": in the loop
                        \* of write_deputy_xml; "raised": an exception left
                        \* the loop; "done": the program ended
    tidx,               \* the position the loop handles next
    table,              \* the committed rows of the table speeches
    person_id_counter,  \* fr_build_db: the id the next stored file gets
    tcounts,            \* processed_files_count and skipped_files_count
    reported,           \* names of the files an error message named
    handled,            \* observation: names of the files given to
                        \* process_speaker_data or extract_speeches, in order
    use_id,             \* fr_deputy_speeches: --use-id was given
    speeches_by_deputy, \* fr_deputy_speeches: <<key, speeches>> in the
                        \* order the keys entered the dict
    display_name,       \* fr_deputy_speeches: key -> name
    outDir,             \* fr_deputy_speeches: file name -> what it holds
    builds,             \* the builders: the runs on this database file
    earlier             \* observation: the listing of the run before and
                        \* the table when this run connected

\* what only fr_deputy_speeches has
deputyVars == <<use_id, speeches_by_deputy, display_name, outDir>>

rerunVars == <<builds, earlier>>

treeVars ==
    <<prog, listing, xml_files, tpc, tidx, table, person_id_counter, tcounts,
      reported, handled, deputyVars, rerunVars>>

\* what the steps of populate_database and main leave alone
otherVars == <<fnVars, splitVars, treeVars>>
\* what the identity resolver taken alone leaves alone
notFn == <<ingestVars, splitVars, treeVars>>
\* what split_hansard leaves alone
notSplit == <<ingestVars, fnVars, treeVars>>
\* what the programs that read whole trees leave alone
notTree == <<ingestVars, fnVars, splitVars>>

vars == <<ingestVars, otherVars>>

ZeroCounts == [processed |-> 0, speeches_added |-> 0, members_added |-> 0]
NoSummary  == [printed |-> FALSE] @@ ZeroCounts

(***************************************************************************)
(* One pass of the for loop of populate_database (lines 141-219) over the  *)
(* element el.  env is what the environment does during the pass:          *)
(*   env.memberErr  the INSERT into members raises sqlite3.Error          *)
(*   env.selectErr  the SELECT on speeches raises sqlite3.Error           *)
(*   env.resp       the answer of the detail endpoint                      *)
(*   env.speechErr  the INSERT into speeches or the commit raises a        *)
(*                  sqlite3.Error that is no IntegrityError                *)
(* The result holds the tables and counters after the pass, and, for the   *)
(* properties, the states the element went through, the iid it was         *)
(* resolved to, whether the detail endpoint was asked and whether an       *)
(* exception left the loop.                                                *)
(***************************************************************************)
Outcome(t, d, c, path, iid, fetched, resp, raised, werr) ==
    [tx |-> t, db |-> d, counts |-> c, path |-> path, db_iid |-> iid,
     fetched |-> fetched, resp |-> resp, raised |-> raised, werr |-> werr]

\* A faulty variant of StoreSpeech: INSERT OR REPLACE, which deletes the rows
\* that stand against the new one instead of raising IntegrityError.
StoreSpeechReplacing(t, d, c, f, iid, text, env, path) ==
    LET row  == SpeechRow(iid, f, text)
        done == [c EXCEPT !.processed = @ + 1]
        kept == {r \in t.speeches :
                    /\ r.anforande_id # row.anforande_id
                    /\ r.anforande_url_xml # row.anforande_url_xml}
    IN  IF env.speechErr
        THEN Outcome(d, d, done, path \o <<"Failed">>, iid, TRUE, env.resp, FALSE, TRUE)
        ELSE LET t2 == [t EXCEPT !.speeches = kept \cup {row}]
             IN  Outcome(t2, t2, [done EXCEPT !.speeches_added = @ + 1],
                         path \o <<"Persisted">>, iid, TRUE, env.resp, FALSE, FALSE)

\* lines 205-219, after the text was fetched
StoreSpeech(t, d, c, f, iid, text, env, path) ==
    LET row  == SpeechRow(iid, f, text)
        done == [c EXCEPT !.processed = @ + 1]
    IN  IF SpeechIntegrityError(t.speeches, row)
        THEN \* line 213: reported, neither commit nor rollback
             Outcome(t, d, done, path \o <<"Failed">>, iid, TRUE, env.resp, FALSE, FALSE)
        ELSE IF env.speechErr
        THEN \* line 217: conn.rollback() drops everything not committed
             Outcome(d, d, done, path \o <<"Failed">>, iid, TRUE, env.resp, FALSE, TRUE)
        ELSE \* line 210: conn.commit() makes the pending rows durable
             LET t2 == [t EXCEPT !.speeches = @ \cup {row}]
             IN  Outcome(t2, t2, [done EXCEPT !.speeches_added = @ + 1],
                         path \o <<"Persisted">>, iid, TRUE, env.resp, FALSE, FALSE)

\* A faulty variant of CheckAndFetch: the text is fetched before the
\* existence check.
FetchThenCheck(t, d, c, f, iid, env, path) ==
    IF env.selectErr
    THEN Outcome(t, d, c, path \o <<"Failed">>, iid, TRUE, env.resp, TRUE, FALSE)
    ELSE IF SpeechExists(t.speeches, f.anforande_id)
    THEN Outcome(t, d, [c EXCEPT !.processed = @ + 1],
                 path \o <<"TextFetched", "ExistenceChecked", "Skipped">>,
                 iid, TRUE, env.resp, FALSE, FALSE)
    ELSE StoreSpeech(t, d, c, f, iid,
                     FetchSpeechText(f.anforande_url_xml, env.resp), env,
                     path \o <<"TextFetched", "ExistenceChecked">>)

\* lines 191-199: the existence check and the fetch of the text
CheckAndFetch(t, d, c, f, iid, env, path) ==
    IF env.selectErr
    THEN \* cursor.execute is outside any try: the exception leaves the loop
         Outcome(t, d, c, path \o <<"Failed">>, iid, FALSE, "none", TRUE, FALSE)
    ELSE IF SpeechExists(t.speeches, f.anforande_id)
    THEN Outcome(t, d, [c EXCEPT !.processed = @ + 1],
                 path \o <<"ExistenceChecked", "Skipped">>, iid, FALSE, "none", FALSE, FALSE)
    ELSE StoreSpeech(t, d, c, f, iid,
                     FetchSpeechText(f.anforande_url_xml, env.resp), env,
                     path \o <<"ExistenceChecked", "TextFetched">>)

\* A faulty variant of UpsertMember: the sqlite3.Error of the INSERT is not
\* caught and leaves the loop.
UpsertMemberRaising(t, d, c, f, iid, env, path) ==
    IF env.memberErr
    THEN Outcome(t, d, c, path \o <<"Failed">>, iid, FALSE, "none", TRUE, TRUE)
    ELSE LET m2 == InsertOrIgnoreMember(t.members, MemberRow(iid, f))
             c2 == IF m2 # t.members
                   THEN [c EXCEPT !.members_added = @ + 1] ELSE c
         IN  CheckAndFetch([t EXCEPT !.members = m2], d, c2, f, iid, env, path)

\* A faulty variant of UpsertMember: after the sqlite3.Error of the INSERT the
\* pass goes on to the speech instead of to the next element.
UpsertMemberPassing(t, d, c, f, iid, env, path) ==
    IF env.memberErr
    THEN CheckAndFetch(t, d, c, f, iid, env, path)
    ELSE LET m2 == InsertOrIgnoreMember(t.members, MemberRow(iid, f))
             c2 == IF m2 # t.members
                   THEN [c EXCEPT !.members_added = @ + 1] ELSE c
         IN  CheckAndFetch([t EXCEPT !.members = m2], d, c2, f, iid, env, path)

\* lines 180-188: the speaker's row
UpsertMember(t, d, c, f, iid, env, path) ==
    IF env.memberErr
    THEN Outcome(t, d, c, path \o <<"Failed">>, iid, FALSE, "none", FALSE, TRUE)
    ELSE LET m2 == InsertOrIgnoreMember(t.members, MemberRow(iid, f))
             c2 == IF m2 # t.members
                   THEN [c EXCEPT !.members_added = @ + 1] ELSE c
         IN  CheckAndFetch([t EXCEPT !.members = m2], d, c2, f, iid, env, path)

\* the iid each element is resolved to
IidOf == [el \in AllElements |-> ResolveIid(FieldsOf[el])]

ProcessEntry(t, d, c, el, env) ==
    LET f == FieldsOf[el]
    IN  IF CoreMissing(f)
        THEN Outcome(t, d, c, <<"Discovered", "Failed">>, <<>>, FALSE, "none", FALSE, FALSE)
        ELSE UpsertMember(t, d, c, f, IidOf[el], env,
                          <<"Discovered", "IdentityResolved">>)

\* A pass ends at the first statement that raises, so what the environment
\* would have done after it is left at its default.
Envs ==
    {e \in [memberErr : BOOLEAN, selectErr : BOOLEAN, resp : Responses,
            speechErr : BOOLEAN] :
        (e.memberErr \/ e.selectErr) =>
            (~(e.memberErr /\ e.selectErr) /\ e.resp = "ok" /\ ~e.speechErr)}

(***************************************************************************)
(* Observations.  They record what the program did and are read by the     *)
(* properties only; no action of the program depends on them.              *)
(***************************************************************************)
\* no element handled yet
NoneHandled ==
    [path |-> <<>>, db_iid |-> <<>>, fetched |-> FALSE, resp |-> "none",
     werr |-> FALSE, existed |-> FALSE]

\* what the properties keep of one pass of the loop; existed: a row with the
\* element's anforande_id was in speeches when the pass began
Handled(r, existed) ==
    [path |-> r.path, db_iid |-> r.db_iid, fetched |-> r.fetched,
     resp |-> r.resp, werr |-> r.werr, existed |-> existed]

\* werrAt: position of the first store write failure of the run (0: none);
\* fetchBad: a detail fetch of the run did not yield the text;
\* startDb: the database file when the run started
FreshRun(d) == [werrAt |-> 0, fetchBad |-> FALSE, startDb |-> d]

RunAfter(rn, i, r) ==
    [rn EXCEPT
       !.werrAt   = IF @ = 0 /\ r.werr THEN i ELSE @,
       !.fetchBad = @ \/ (r.fetched /\ r.resp # "ok")]

\* rerun: "clean" when the latest run handled the present list to its
\*       summary without a store write failure, "failed" when it did so with
\*       one, "no" otherwise;
\* resolved: <<name, party, iid>> for every element without iid that a run
\*       resolved;
\* resume: the latest run handled the present list, met no store write
\*       failure and was stopped (on); db0 is the database file at its start
NoResume == [on |-> FALSE, db0 |-> EmptyStore]

(***************************************************************************)
(* The initial state: an empty database file, nothing upstream, no process.*)
(***************************************************************************)
IngestInit ==
    /\ upstream = <<>>
    /\ db = EmptyStore
    /\ tx = EmptyStore
    /\ pc = "idle"
    /\ idx = 1
    /\ counts = ZeroCounts
    /\ summary = NoSummary
    /\ runs = 0
    /\ last = NoneHandled
    /\ run = FreshRun(EmptyStore)
    /\ past = [rerun |-> "no", resolved |-> {}, resume |-> NoResume]

\* no call of the identity resolver taken alone
NoCall == [iid |-> <<>>, talare |-> <<>>, parti |-> <<>>, applied |-> FALSE]

FnIdle == arg = NoCall /\ res = <<>>

\* split_hansard is not run
SplitIdle ==
    /\ inFiles = <<>>
    /\ inputRoot = "dir"
    /\ outMade = FALSE
    /\ cleared = {}
    /\ spc = "off"
    /\ sfile = 1
    /\ sitem = 1
    /\ handles = {}
    /\ outFiles = [n \in {} |-> 0]

\* no program that reads whole trees is run
NoFileCounts == [processed |-> 0, skipped |-> 0]

\* before the first run on a database file: no listing seen, no rows
NoEarlier == [listing |-> <<>>, table |-> {}]

TreeIdle ==
    /\ prog = "off"
    /\ listing = <<>>
    /\ xml_files = <<>>
    /\ tpc = "off"
    /\ tidx = 1
    /\ table = {}
    /\ person_id_counter = 1
    /\ tcounts = NoFileCounts
    /\ reported = {}
    /\ handled = <<>>
    /\ use_id = FALSE
    /\ speeches_by_deputy = <<>>
    /\ display_name = [k \in {} |-> <<>>]
    /\ outDir = [n \in {} |-> 0]
    /\ builds = 1
    /\ earlier = NoEarlier

Init == IngestInit /\ FnIdle /\ SplitIdle /\ TreeIdle

\* the process is gone: what was not committed is lost with the connection
ProcessGone ==
    /\ pc' = "idle"
    /\ tx' = db
    /\ idx' = 1
    /\ counts' = ZeroCounts
    /\ summary' = NoSummary
    /\ last' = NoneHandled
    /\ run' = FreshRun(db)

(***************************************************************************)
(* A speech is published: the list endpoint returns one element more.      *)
(***************************************************************************)
UpstreamGrows ==
    /\ pc = "idle"
    /\ Len(upstream) < MaxList
    /\ \E el \in Elements :
          /\ \A k \in 1..Len(upstream) : upstream[k] # el
          /\ upstream' = SortedInsert(upstream, el)
    /\ past' = [past EXCEPT !.rerun = "no", !.resume = NoResume]
    /\ UNCHANGED <<db, tx, pc, idx, counts, summary, runs, last, run>>
    /\ UNCHANGED otherVars

(***************************************************************************)
(* The oldest element leaves the date window the list is asked for.        *)
(***************************************************************************)
UpstreamSlides ==
    /\ pc = "idle"
    /\ upstream # <<>>
    /\ upstream' = SubSeq(upstream, 1, Len(upstream) - 1)
    /\ past' = [past EXCEPT !.rerun = "no", !.resume = NoResume]
    /\ UNCHANGED <<db, tx, pc, idx, counts, summary, runs, last, run>>
    /\ UNCHANGED otherVars

(***************************************************************************)
(* main up to the for loop: setup_database opens the connection, and       *)
(* populate_database fetches and parses the list (lines 113-139).  It      *)
(* returns at once when the list cannot be fetched or parsed or is empty.  *)
(***************************************************************************)
ListResponses == {"failure", "malformed", "ok"}

\* A faulty variant of AfterList: a list that cannot be fetched or parsed
\* ends the process.
AfterListFatal(listResp, list) ==
    IF listResp # "ok" THEN "idle"
    ELSE IF list # <<>> THEN "loop" ELSE "report"

\* lines 113-133: where populate_database goes after the list was asked for
AfterList(listResp, list) ==
    IF listResp = "ok" /\ list # <<>> THEN "loop" ELSE "report"

StartRun ==
    /\ pc = "idle"
    /\ runs < MaxRuns
    /\ runs' = runs + 1
    /\ db' = SetupDatabase(db)
    /\ tx' = db'
    /\ idx' = 1
    /\ counts' = ZeroCounts
    /\ summary' = NoSummary
    /\ last' = NoneHandled
    /\ run' = FreshRun(db)
    /\ \E listResp \in ListResponses :
          pc' = AfterList(listResp, upstream)
    /\ UNCHANGED <<upstream, past>>
    /\ UNCHANGED otherVars

(***************************************************************************)
(* One pass of the for loop.  An exception that leaves the loop ends the   *)
(* process.                                                                *)
(***************************************************************************)
LoopStep ==
    /\ pc = "loop"
    /\ idx <= Len(upstream)
    /\ \E env \in Envs :
          LET el == upstream[idx]
              f  == FieldsOf[el]
              r  == ProcessEntry(tx, db, counts, el, env)
          IN  IF r.raised
              THEN /\ ProcessGone
                   /\ past' = [past EXCEPT !.rerun = "no", !.resume = NoResume]
                   /\ UNCHANGED db
              ELSE /\ db' = r.db
                   /\ tx' = r.tx
                   /\ counts' = r.counts
                   /\ idx' = idx + 1
                   /\ last' = Handled(r, \E row \in tx.speeches :
                                            row.anforande_id = f.anforande_id)
                   /\ run' = RunAfter(run, idx, r)
                   /\ past' = IF ~CoreMissing(f) /\ f.iid = <<>>
                              THEN [past EXCEPT !.resolved =
                                      @ \cup {<<f.talare, f.parti, r.db_iid>>}]
                              ELSE past
                   /\ UNCHANGED <<pc, summary>>
    /\ UNCHANGED <<upstream, runs>>
    /\ UNCHANGED otherVars

(***************************************************************************)
(* Lines 221-224: the loop is over, the summary is printed.                *)
(***************************************************************************)
PrintSummary ==
    /\ pc = "loop"
    /\ idx > Len(upstream)
    /\ summary' = [printed |-> TRUE] @@ counts
    /\ pc' = "report"
    /\ UNCHANGED <<upstream, db, tx, idx, counts, runs, last, run, past>>
    /\ UNCHANGED otherVars

(***************************************************************************)
(* main, lines 432-438: the report is generated from what the connection   *)
(* sees and the connection is closed, without a commit.                    *)
(***************************************************************************)
CloseConnection ==
    /\ pc = "report"
    /\ ProcessGone
    /\ past' = IF summary.printed
               THEN [past EXCEPT
                       !.rerun = IF run.werrAt = 0 THEN "clean" ELSE "failed",
                       !.resume = NoResume]
               ELSE past
    /\ UNCHANGED <<upstream, db, runs>>
    /\ UNCHANGED otherVars

(***************************************************************************)
(* The run is stopped between two elements of the list.                    *)
(***************************************************************************)
StopRun ==
    /\ pc = "loop"
    /\ ProcessGone
    /\ past' = [past EXCEPT
                  !.rerun = "no",
                  !.resume = IF run.werrAt = 0
                             THEN [on |-> TRUE, db0 |-> run.startDb]
                             ELSE NoResume]
    /\ UNCHANGED <<upstream, db, runs>>
    /\ UNCHANGED otherVars

Next ==
    \/ UpstreamGrows
    \/ UpstreamSlides
    \/ StartRun
    \/ LoopStep
    \/ PrintSummary
    \/ CloseConnection
    \/ StopRun

Spec == Init /\ [][Next]_vars

(***************************************************************************)
(* Helpers of the properties.                                              *)
(***************************************************************************)
\* the run is inside populate_database or just left it
Running == pc \in {"loop", "report"}

\* the element the latest pass of the loop handled
LastFields == FieldsOf[upstream[idx - 1]]

\* a pass of the loop has been made in the current run
SomeHandled == Running /\ idx > 1 /\ last.path # <<>>

LastState(path) == path[Len(path)]

\* the positions of the list whose element has all core fields
ValidAt == {k \in 1..Len(upstream) : ~CoreMissing(FieldsOf[upstream[k]])}

(***************************************************************************)
(* C1.  After any sequence of runs, whatever fetches and store writes      *)
(* failed, no two rows of speeches have the same anforande_id: neither in  *)
(* the database file nor in what the open connection sees.                 *)
(***************************************************************************)
UniqueKey(speeches) ==
    \A r1, r2 \in speeches : r1.anforande_id = r2.anforande_id => r1 = r2

C1_SpeechKeyUnique == UniqueKey(db.speeches) /\ UniqueKey(tx.speeches)

\* two elements of the list carry the same anforande_id under different
\* speakers; the write for the first failed, the run handled both, and the
\* key is stored
C1_Witness ==
    /\ pc = "report"
    /\ summary.printed
    /\ run.werrAt = 1
    /\ \E j, k \in ValidAt :
          /\ j < k
          /\ FieldsOf[upstream[j]].anforande_id = FieldsOf[upstream[k]].anforande_id
          /\ FieldsOf[upstream[j]] # FieldsOf[upstream[k]]
          /\ \E r \in db.speeches :
                r.anforande_id = FieldsOf[upstream[k]].anforande_id

(***************************************************************************)
(* C2.  As claimed: a run over the list that the run before it handled to  *)
(* its summary adds no row, so that the database file stays what it was    *)
(* when the run started, and its summary reports 0 speeches added.         *)
(***************************************************************************)
NothingAdded ==
    /\ db = run.startDb
    /\ counts.speeches_added = 0
    /\ summary.printed => summary.speeches_added = 0

Before(path, a, b) ==
    \E i, j \in 1..Len(path) : i < j /\ path[i] = a /\ path[j] = b

C5_ExistenceCheckBeforeFetch ==
    /\ last.fetched =>
          /\ ~last.existed
          /\ Before(last.path, "ExistenceChecked", "TextFetched")
    /\ last.existed => ~last.fetched

\* in a second run an element whose speech is stored was skipped without a
\* fetch
C5_Witness ==
    /\ runs = 2
    /\ SomeHandled
    /\ last.existed
    /\ ~last.fetched
    /\ LastState(last.path) = "Skipped"
    /\ SpeechExists(run.startDb.speeches, LastFields.anforande_id)

(***************************************************************************)
(* C3.  A speech whose detail fetch met a network failure in one run is    *)
(* recovered by a later run: once a run in which every fetch yielded the   *)
(* text and no store write failed has handled the list to its summary, no  *)
(* speech of the list is stored with the message of the failed fetch in    *)
(* the place of its text.                                                  *)
(***************************************************************************)
KeysOfList == {FieldsOf[upstream[k]].anforande_id : k \in ValidAt}

C3_NetworkFailureRecovered ==
    (pc = "report" /\ summary.printed /\ ~run.fetchBad /\ run.werrAt = 0) =>
        \A r \in db.speeches :
            r.anforande_id \in KeysOfList => r.anforandetext # MsgNoFetch

(***************************************************************************)
(* C4.  Every element a run handles goes through                           *)
(*   Discovered -> IdentityResolved -> ExistenceChecked                    *)
(*              -> {Skipped | TextFetched -> Persisted},                   *)
(* Failed being reachable from every state; it ends in exactly one of      *)
(* Persisted, Skipped and Failed, and it is Persisted only when the detail *)
(* endpoint gave its text.                                                 *)
(***************************************************************************)
Terminal == {"Persisted", "Skipped", "Failed"}

StateMoves ==
    {<<"Discovered", "IdentityResolved">>,
     <<"IdentityResolved", "ExistenceChecked">>,
     <<"ExistenceChecked", "Skipped">>,
     <<"ExistenceChecked", "TextFetched">>,
     <<"TextFetched", "Persisted">>}

AlongStateMachine(path) ==
    /\ path[1] = "Discovered"
    /\ \A i \in 1..(Len(path) - 1) :
          /\ path[i] \notin Terminal
          /\ \/ <<path[i], path[i + 1]>> \in StateMoves
             \/ path[i + 1] = "Failed"
    /\ LastState(path) \in Terminal

C4_RecordStateMachine ==
    last.path # <<>> =>
        /\ AlongStateMachine(last.path)
        /\ LastState(last.path) = "Persisted" => last.resp = "ok"

(***************************************************************************)
(* C6.  A run over the list was stopped between two elements, having met   *)
(* no store write failure, and the list is handled again to the summary,   *)
(* again without store write failure.  Then every speech that was in the   *)
(* database file at the stop is still there, unchanged, and the database   *)
(* file is what one uninterrupted run over the list, started from the      *)
(* database file the stopped run started from and given the same answers   *)
(* by the detail endpoint, leaves.                                         *)
(***************************************************************************)
\* the answer of the detail endpoint that put text in a row
RespOfText(text) ==
    IF text = MsgNoFetch THEN "failure"
    ELSE IF text = MsgParse THEN "malformed"
    ELSE IF text = MsgNotFound THEN "notext"
    ELSE "ok"

\* the answer the detail endpoint gave for the speech anforande_id, read from
\* the row stored in speeches
RespStored(speeches, anforande_id) ==
    IF \E r \in speeches : r.anforande_id = anforande_id
    THEN RespOfText((CHOOSE r \in speeches :
                        r.anforande_id = anforande_id).anforandetext)
    ELSE "ok"

RECURSIVE UninterruptedRun(_, _, _, _, _)
\* the tables after the for loop has handled list from position k on, without
\* store failure
UninterruptedRun(t, d, list, k, final) ==
    IF k > Len(list) THEN [tx |-> t, db |-> d]
    ELSE LET f   == FieldsOf[list[k]]
             env == [memberErr |-> FALSE, selectErr |-> FALSE,
                     speechErr |-> FALSE,
                     resp |-> RespStored(final, f.anforande_id)]
             r   == ProcessEntry(t, d, ZeroCounts, list[k], env)
         IN  UninterruptedRun(r.tx, r.db, list, k + 1, final)

C7_WriteFailureDoesNotAbort ==
    /\ (pc = "loop" /\ idx <= Len(upstream)) =>
          \A env \in Envs :
              LET r == ProcessEntry(tx, db, counts, upstream[idx], env)
              IN  r.werr => (~r.raised /\ LastState(r.path) \in Terminal)
    /\ run.werrAt > 0 =>
          /\ Running
          /\ idx > run.werrAt
          /\ LastState(last.path) \in Terminal
    /\ summary.printed => idx = Len(upstream) + 1

\* the write for the first element failed, the second element was stored
\* and the summary was printed
C7_Witness ==
    /\ pc = "report"
    /\ summary.printed
    /\ summary.processed = 2
    /\ run.werrAt = 1
    /\ ~last.werr
    /\ LastState(last.path) = "Persisted"

(***************************************************************************)
(* C8.  A pass of the loop that meets a store write failure takes no row   *)
(* that an earlier pass of the run wrote out of members or speeches, as    *)
(* the connection sees them.                                               *)
(***************************************************************************)
C8_RollbackOnlyThatEntry ==
    [][(pc = "loop" /\ idx' = idx + 1 /\ last'.werr) =>
          /\ tx.members \subseteq tx'.members
          /\ tx.speeches \subseteq tx'.speeches]_vars

C10_SynthesizedIdDeterministic ==
    /\ \A a, b \in past.resolved :
          (a[1] = b[1] /\ a[2] = b[2]) => a[3] = b[3]
    /\ \A a \in past.resolved :
          /\ Cardinality({r \in tx.members : r.iid = a[3]}) <= 1
          /\ Cardinality({r \in db.members : r.iid = a[3]}) <= 1
    /\ (SomeHandled /\ LastFields.iid = <<>>
          /\ LastState(last.path) \in {"Persisted", "Skipped"}) =>
          Cardinality({r \in tx.members : r.iid = last.db_iid}) = 1

\* two speeches of A. Smith of party X, both without iid, are stored under
\* one synthesized id, and members holds one row for the speaker
C10_Witness ==
    /\ Cardinality({r \in db.speeches :
                      r.iid = <<"g", "e", "n", "_", "a", "_", "s", "m", "i",
                                "t", "h", "_", "x">>}) = 2
    /\ Cardinality({r \in db.members : r.name = ASmith}) = 1
    /\ Cardinality(past.resolved) = 1

(***************************************************************************)
(* The identity resolver of populate_database (lines 170-176) taken alone, *)
(* on values as get_text_from_element returns them: stripped, talare not   *)
(* empty.                                                                  *)
(***************************************************************************)
Repeat(c, n) == [k \in 1..n |-> c]

IidInputs == {<<>>, Iid7, Repeat("7", MaxName)}

NameInputs ==
    {ASmith, Bo, Ada, <<".">>,
     Repeat("a", MaxName),
     Repeat("A", IidMaxLen - 6),
     <<"B", "o", " ">> \o Repeat("b", MaxName)}

PartyInputs == {<<>>, PartyX, PartyY, <<"S", "-", "X">>, Repeat("y", MaxName)}

ApplyResolveIid ==
    /\ \E iid \in IidInputs, talare \in NameInputs, parti \in PartyInputs :
          /\ arg' = [iid |-> iid, talare |-> talare, parti |-> parti,
                     applied |-> TRUE]
          /\ res' = ResolveIid(arg')
    /\ UNCHANGED notFn

SpecIid == Init /\ [][ApplyResolveIid]_vars

(***************************************************************************)
(* C11.  The identity resolver returns iid_from_xml unchanged when it is   *)
(* not empty; otherwise it returns an id that starts with gen_ and has at  *)
(* most 60 characters, whatever the name and the party.                    *)
(***************************************************************************)
C11_ResolvedIid ==
    arg.applied =>
        IF arg.iid # <<>>
        THEN res = arg.iid
        ELSE /\ Len(res) <= 60
             /\ Len(res) >= 4
             /\ SubSeq(res, 1, 4) = <<"g", "e", "n", "_">>

\* a name of more than 60 characters without iid was resolved to an id of
\* exactly 60 characters
C11_Witness ==
    /\ arg.applied
    /\ arg.iid = <<>>
    /\ Len(arg.talare) > 60
    /\ Len(res) = 60

(***************************************************************************)
(* C12.  An element without speaker name, without anforande_id or without  *)
(* detail URL is skipped: the pass of the loop over it writes nothing to   *)
(* members or speeches, leaves the three counters as they are and does not *)
(* raise; the summary is printed only after the whole list was handled and *)
(* its processed count does not exceed the number of elements that have    *)
(* the three fields.                                                       *)
(***************************************************************************)
\* the child tag is absent, empty or blank
Lacks(el, tag) == tag \notin DOMAIN el \/ Strip(el[tag]) = <<>>

LacksCore(el) ==
    Lacks(el, "talare") \/ Lacks(el, "anforande_id")
        \/ Lacks(el, "anforande_url_xml")

C12_CoreMissingSkipped ==
    /\ pc = "loop" =>
          \A el \in {e \in AllElements : LacksCore(e)} : \A env \in Envs :
              LET r == ProcessEntry(tx, db, counts, el, env)
              IN  /\ r.tx = tx
                  /\ r.db = db
                  /\ r.counts = counts
                  /\ ~r.raised
    /\ summary.printed =>
          /\ idx = Len(upstream) + 1
          /\ summary.processed <=
                Cardinality({k \in 1..Len(upstream) : ~LacksCore(upstream[k])})

\* the first of two elements has no speaker name; the run stored the second
\* and printed a summary that counts one element
C12_Witness ==
    /\ pc = "report"
    /\ summary.printed
    /\ Len(upstream) = 2
    /\ Lacks(upstream[1], "talare")
    /\ summary.processed = 1
    /\ summary.speeches_added = 1
    /\ Cardinality(db.speeches) = 1
    /\ \A r \in db.speeches :
          r.anforande_id = FieldsOf[upstream[2]].anforande_id

(***************************************************************************)
(* C13.  A run that starts always comes to the loop or to the report, with *)
(* the database file as it was.  When the report is reached without a      *)
(* summary (the list was not fetched, not parsed, or empty), the tables    *)
(* and the counters are what they were at the start of the run, and the    *)
(* next step closes the connection and leaves the database file as it is.  *)
(***************************************************************************)
C13_ListFailureNotFatal ==
    [][/\ runs' = runs + 1 =>
             /\ pc' \in {"loop", "report"}
             /\ db' = db
             /\ tx' = db
       /\ (pc = "report" /\ ~summary.printed) =>
             /\ db = run.startDb
             /\ tx = db
             /\ counts = ZeroCounts
             /\ pc' = "idle"
             /\ db' = db]_vars

\* the list endpoint has a speech, the database file holds a speech of an
\* earlier run, and the run is at the report without having entered the loop
C13_Witness ==
    /\ pc = "report"
    /\ ~summary.printed
    /\ upstream # <<>>
    /\ runs = 2
    /\ Cardinality(db.speeches) = 1
    /\ tx = db

(***************************************************************************)
(* split_hansard of src/uk/uk_member_speeches.py.                          *)
(*                                                                         *)
(* An input file is the sequence of what ET.iterparse meets in it: speech  *)
(* elements, other elements, and "bad", a place where the bytes are not    *)
(* XML and iterparse raises ParseError.  A speech element is a record      *)
(* whose attrib holds the attributes that are present.                     *)
(***************************************************************************)
\* re.sub(r"[^A-Za-z0-9_\-]", "_", t.strip().replace(" ", "_"))
SanitiseChar(c) ==
    IF IsAlnum(c) \/ c = "_" \/ c = "-" THEN c ELSE "_"

sanitise(t) ==
    LET u == SpacesToUnderscores(Strip(t))
    IN  [k \in 1..Len(u) |-> SanitiseChar(u[k])]

\* pid.split("/")[-1]
RECURSIVE AfterLastSlash(_)
AfterLastSlash(t) ==
    IF \E k \in 1..Len(t) : t[k] = "/"
    THEN AfterLastSlash(Tail(t)) ELSE t

Unknown   == <<"U", "n", "k", "n", "o", "w", "n">>
unknownId == <<"u", "n", "k", "n", "o", "w", "n">>

\* lines 24-25
MemberId(elem) ==
    LET pid == IF "person_id" \in DOMAIN elem.attrib
               THEN elem.attrib.person_id ELSE <<>>
    IN  IF \E k \in 1..Len(pid) : pid[k] = "/" THEN AfterLastSlash(pid)
        ELSE IF pid # <<>> THEN pid ELSE unknownId

\* line 26
MemberName(elem) ==
    sanitise(IF "speakername" \in DOMAIN elem.attrib
             THEN elem.attrib.speakername ELSE Unknown)

\* line 13
SinkKey(mid, mname) == mid \o <<"_">> \o mname

\* line 15: the name of the output file of a key
SinkFile(key) == key \o <<".", "x", "m", "l">>

\* what is written to an output file, piece by piece
HeaderPiece(mid, mname) == [kind |-> "header", mid |-> mid, mname |-> mname]
SpeechPiece(elem)       == [kind |-> "speech", elem |-> elem]
FooterPiece             == [kind |-> "footer"]

\* open(path, "w") creates the file or truncates it
OpenForWriting(files, name) ==
    LET opens == IF name \in DOMAIN files THEN files[name].opens ELSE 0
    IN  (name :> [pieces |-> <<>>, open |-> TRUE, opens |-> opens + 1])
            @@ files

WritePiece(files, name, piece) ==
    [files EXCEPT ![name].pieces = Append(@, piece)]

\* A faulty variant of h: the file is opened at every call.
hOpening(hs, files, mid, mname) ==
    LET key == SinkKey(mid, mname)
    IN  [handles |-> hs \cup {key},
         files   |-> WritePiece(OpenForWriting(files, SinkFile(key)),
                                SinkFile(key), HeaderPiece(mid, mname))]

\* lines 12-19: h(mid, mname), as the dict and the directory after the call
h(hs, files, mid, mname) ==
    LET key == SinkKey(mid, mname)
    IN  IF key \notin hs
        THEN [handles |-> hs \cup {key},
              files   |-> WritePiece(OpenForWriting(files, SinkFile(key)),
                                     SinkFile(key), HeaderPiece(mid, mname))]
        ELSE [handles |-> hs, files |-> files]

\* elem.clear(): the element without attributes, text and children
Cleared(elem) == [tag |-> elem.tag, attrib |-> [a \in {} |-> <<>>]]

\* A faulty variant of WriteThenClear: the element is cleared first.
ClearThenWrite(files, name, elem) ==
    [files |-> WritePiece(files, name, SpeechPiece(Cleared(elem))),
     elem  |-> Cleared(elem)]

\* lines 27-28: the element is serialised to the sink, then cleared
WriteThenClear(files, name, elem) ==
    [files |-> WritePiece(files, name, SpeechPiece(elem)),
     elem  |-> Cleared(elem)]

\* lines 24-28: the speech is serialised to the sink of its key
WriteSpeech(hs, files, elem) ==
    LET mid   == MemberId(elem)
        mname == MemberName(elem)
        got   == h(hs, files, mid, mname)
        wrote == WriteThenClear(got.files, SinkFile(SinkKey(mid, mname)),
                                elem)
    IN  [handles |-> got.handles, files |-> wrote.files,
         elem |-> wrote.elem]

\* lines 30-31: every sink gets its closing tag and is closed
RECURSIVE CloseAll(_, _)
CloseAll(files, keys) ==
    IF keys = {} THEN files
    ELSE LET key  == CHOOSE k \in keys : TRUE
             name == SinkFile(key)
         IN  CloseAll([files EXCEPT ![name].pieces = Append(@, FooterPiece),
                                    ![name].open = FALSE],
                      keys \ {key})

\* The speech elements of the model.  sid stands for the rest of the
\* element (its id and text), day for the sitting day it belongs to.
Pid1 == <<"p", "/", "1">>

Speech(sid, day, attrib) ==
    [tag |-> "speech", sid |-> sid, day |-> day, attrib |-> attrib]

SpSmithDay1 == Speech(1, 1, [person_id |-> Pid1,
                             speakername |-> <<" ">> \o ASmith])
SpBoDay1    == Speech(2, 1, [person_id |-> Iid7, speakername |-> Bo])
SpSmithDay2 == Speech(3, 2, [person_id |-> Pid1, speakername |-> ASmith])
SpBoDay3    == Speech(4, 3, [person_id |-> Iid7, speakername |-> Bo])
SpAnonDay3  == Speech(5, 3, [speakername |-> <<>>])
SpBoDay4    == Speech(6, 4, [person_id |-> Iid7, speakername |-> Bo])
SpAdaDay4   == Speech(7, 4, [person_id |-> <<>>, speakername |-> Ada])

\* an element that is no speech, and a place where the file is not XML
OtherElem == [tag |-> "p"]
BadXml    == [tag |-> "bad"]

\* the input files: one per sitting day; the file of day 4 is cut short
HansardDay1 == <<SpSmithDay1, OtherElem, SpBoDay1>>
HansardDay2 == <<SpSmithDay2>>
HansardDay3 == <<SpBoDay3, SpAnonDay3>>
HansardDay4 == <<SpBoDay4, BadXml, SpAdaDay4>>

HansardFiles == {HansardDay1, HansardDay2, HansardDay3, HansardDay4}

\* glob.iglob yields the files of the directory in an order it chooses
HansardInputs ==
    {fs \in UNION {[1..n -> HansardFiles] : n \in 0..MaxFiles} :
        \A j, k \in 1..Len(fs) : j # k => fs[j] # fs[k]}

InitSplit ==
    /\ IngestInit
    /\ FnIdle
    /\ TreeIdle
    /\ inputRoot \in {"dir", "file", "missing"}
    /\ inFiles \in IF inputRoot = "dir" THEN HansardInputs ELSE {<<>>}
    /\ outMade = FALSE
    /\ cleared = {}
    /\ spc = "start"
    /\ sfile = 1
    /\ sitem = 1
    /\ handles = {}
    /\ outFiles = [n \in {} |-> 0]

\* line 10: the output directory is made; nothing looks at the input path
MakeOutputDir ==
    /\ spc = "start"
    /\ outMade' = TRUE
    /\ spc' = "parsing"
    /\ UNCHANGED <<inFiles, inputRoot, cleared, sfile, sitem, handles,
                   outFiles>>
    /\ UNCHANGED notSplit

(***************************************************************************)
(* Lines 22-28: iterparse yields the next element of the file, or raises   *)
(* ParseError, which nothing in split_hansard catches.                     *)
(***************************************************************************)
SplitElement ==
    /\ spc = "parsing"
    /\ sfile <= Len(inFiles)
    /\ sitem <= Len(inFiles[sfile])
    /\ LET elem == inFiles[sfile][sitem]
       IN  IF elem.tag = "bad"
           THEN /\ spc' = "raised"
                /\ UNCHANGED <<sitem, handles, outFiles, cleared>>
           ELSE IF elem.tag = "speech"
           THEN LET w == WriteSpeech(handles, outFiles, elem)
                IN  /\ handles' = w.handles
                    /\ outFiles' = w.files
                    /\ cleared' = IF w.elem = Cleared(elem)
                                  THEN cleared \cup {elem.sid} ELSE cleared
                    /\ sitem' = sitem + 1
                    /\ UNCHANGED spc
           ELSE /\ sitem' = sitem + 1
                /\ UNCHANGED <<spc, handles, outFiles, cleared>>
    /\ UNCHANGED <<inFiles, inputRoot, outMade, sfile>>
    /\ UNCHANGED notSplit

\* line 21: the file is exhausted, glob.iglob yields the next one
NextInputFile ==
    /\ spc = "parsing"
    /\ sfile <= Len(inFiles)
    /\ sitem > Len(inFiles[sfile])
    /\ sfile' = sfile + 1
    /\ sitem' = 1
    /\ UNCHANGED <<inFiles, inputRoot, outMade, cleared, spc, handles,
                   outFiles>>
    /\ UNCHANGED notSplit

\* lines 30-31, after the last file
CloseSinks ==
    /\ spc = "parsing"
    /\ sfile > Len(inFiles)
    /\ outFiles' = CloseAll(outFiles, handles)
    /\ spc' = "done"
    /\ UNCHANGED <<inFiles, inputRoot, outMade, cleared, sfile, sitem,
                   handles>>
    /\ UNCHANGED notSplit

NextSplit ==
    \/ MakeOutputDir
    \/ SplitElement
    \/ NextInputFile
    \/ CloseSinks

SpecSplit == InitSplit /\ [][NextSplit]_vars

(***************************************************************************)
(* Helpers of the properties of split_hansard.                             *)
(***************************************************************************)
SplitEnded == spc \in {"done", "raised"}

\* the speech pieces of an output file, in the order they were written
SpeechesIn(name) ==
    SelectSeq(outFiles[name].pieces, LAMBDA piece : piece.kind = "speech")

HeadersIn(name) ==
    SelectSeq(outFiles[name].pieces, LAMBDA piece : piece.kind = "header")

\* the speech elements of the first n items of a file
SpeechElems(file, n) ==
    SelectSeq(SubSeq(file, 1, n), LAMBDA elem : elem.tag = "speech")

\* the speech elements iterparse has yielded so far, in the order it did
RECURSIVE YieldedFrom(_)
YieldedFrom(k) ==
    IF k > Len(inFiles) \/ k > sfile THEN <<>>
    ELSE SpeechElems(inFiles[k],
                     IF k < sfile THEN Len(inFiles[k]) ELSE sitem - 1)
         \o YieldedFrom(k + 1)

Yielded == YieldedFrom(1)

\* a file without a place that is not XML
WellFormed(file) == \A k \in 1..Len(file) : file[k].tag # "bad"

(***************************************************************************)
(* C14.  When a run of split_hansard has ended, by returning or by an      *)
(* exception, every output file it opened ends with the closing tag and is *)
(* closed.                                                                 *)
(***************************************************************************)
C14_SinksClosedAtEnd ==
    SplitEnded =>
        \A name \in DOMAIN outFiles :
            /\ ~outFiles[name].open
            /\ outFiles[name].pieces[Len(outFiles[name].pieces)].kind = "footer"

(***************************************************************************)
(* C15.  At every point of a run of split_hansard there is one output file *)
(* per key of handles; each was opened once and begins with the only       *)
(* header it holds; and the speeches in the file of a key are the speeches *)
(* with that key that iterparse has yielded so far, from all input files,  *)
(* in the order they were yielded.                                         *)
(***************************************************************************)
KeyOfSpeech(elem) == MemberId(elem) \o <<"_">> \o MemberName(elem)

C15_OneSinkPerKey ==
    spc # "off" =>
        /\ DOMAIN outFiles = {SinkFile(key) : key \in handles}
        /\ \A key \in handles :
              LET name == SinkFile(key)
              IN  /\ outFiles[name].opens = 1
                  /\ Len(HeadersIn(name)) = 1
                  /\ outFiles[name].pieces[1].kind = "header"
                  /\ SpeechesIn(name) =
                        [k \in 1..Len(SelectSeq(Yielded,
                                 LAMBDA elem : KeyOfSpeech(elem) = key)) |->
                            SpeechPiece(SelectSeq(Yielded,
                                 LAMBDA elem : KeyOfSpeech(elem) = key)[k])]
        /\ \A k \in 1..Len(Yielded) : KeyOfSpeech(Yielded[k]) \in handles

\* the run returned; the speaker p/1 "A. Smith" spoke in two input files and
\* both speeches are in the one file 1_A__Smith.xml, opened once
C15_Witness ==
    /\ spc = "done"
    /\ Len(inFiles) >= 2
    /\ LET name == <<"1", "_", "A", "_", "_", "S", "m", "i", "t", "h",
                     ".", "x", "m", "l">>
       IN  /\ name \in DOMAIN outFiles
           /\ outFiles[name].opens = 1
           /\ Len(SpeechesIn(name)) = 2
           /\ Len(outFiles[name].pieces) = 4

(***************************************************************************)
(* C16.  When a run of split_hansard has ended, every speech of every      *)
(* well-formed input file is in the output file of its speaker, even when  *)
(* another input file is not well-formed.                                  *)
(***************************************************************************)
C16_MalformedFileIsolated ==
    SplitEnded =>
        \A k \in 1..Len(inFiles) :
            WellFormed(inFiles[k]) =>
                \A j \in 1..Len(inFiles[k]) :
                    LET elem == inFiles[k][j]
                    IN  elem.tag = "speech" =>
                           \E name \in DOMAIN outFiles :
                              \E i \in 1..Len(outFiles[name].pieces) :
                                 outFiles[name].pieces[i] = SpeechPiece(elem)

(***************************************************************************)
(* C19.  When split_hansard has returned, the speeches of every output     *)
(* file are in ascending order of their sitting day, in whatever order the *)
(* input files were yielded.                                               *)
(***************************************************************************)
C19_OutputInDateOrder ==
    spc = "done" =>
        \A name \in DOMAIN outFiles :
            LET sp == SpeechesIn(name)
            IN  \A i, j \in 1..Len(sp) :
                    i < j => sp[i].elem.day <= sp[j].elem.day

(***************************************************************************)
(* The programs that read whole XML trees.  Strings are sequences of       *)
(* characters; CodeOrder lists the characters of the file names and dates  *)
(* in the order of their code points, which is the order str compares by.  *)
(***************************************************************************)
CodeOrder ==
    <<" ", "-", ".", "0", "1", "2", "3", "4", "5", "7", "8",
      "A", "B", "C", "R", "S", "_",
      "a", "b", "d", "e", "h", "i", "l", "m", "n", "o", "s", "t", "x">>

Ord(c) == CHOOSE k \in 1..Len(CodeOrder) : CodeOrder[k] = c

\* a < b for two str
RECURSIVE StrLess(_, _)
StrLess(a, b) ==
    IF b = <<>> THEN FALSE
    ELSE IF a = <<>> THEN TRUE
    ELSE IF a[1] # b[1] THEN Ord(a[1]) < Ord(b[1])
    ELSE StrLess(Tail(a), Tail(b))

\* str.startswith and str.endswith
StartsWith(t, pre) ==
    Len(t) >= Len(pre) /\ SubSeq(t, 1, Len(pre)) = pre

EndsWith(t, suf) ==
    Len(t) >= Len(suf) /\ SubSeq(t, Len(t) - Len(suf) + 1, Len(t)) = suf

DotXml == <<".", "x", "m", "l">>

\* sorted(files) and list.sort(): by name, ascending
RECURSIVE InsertByName(_, _)
InsertByName(sorted, file) ==
    IF sorted = <<>> THEN <<file>>
    ELSE IF StrLess(file.name, Head(sorted).name)
         THEN <<file>> \o sorted
         ELSE <<Head(sorted)>> \o InsertByName(Tail(sorted), file)

RECURSIVE SortByName(_)
SortByName(files) ==
    IF files = <<>> THEN <<>>
    ELSE InsertByName(SortByName(SubSeq(files, 1, Len(files) - 1)),
                      files[Len(files)])

\* ET.parse(path): the exception it raises, "no" when it returns the tree
ETparse(file) == IF file.xml = "malformed" THEN "ParseError" ELSE "no"

\* A faulty variant of the except clauses after ET.parse: none.
CaughtAtParseNothing == {}

\* the exceptions the except clauses after ET.parse catch in the two
\* process_speaker_data
CaughtAtParse == {"ParseError", "IOError"}

\* what a call of process_speaker_data comes to: the value it returns, the
\* exception that leaves it ("no": none) and the committed table after it
Returned(value, tbl) == [returned |-> value, raised |-> "no", table |-> tbl]
Raised(exc, tbl)     == [returned |-> FALSE, raised |-> exc, table |-> tbl]

SpeechesRow(iid, name, text) ==
    [iid |-> iid, name |-> name, party |-> <<>>, speech_text |-> text]

\* the PRIMARY KEY of the table speeches is taken
IidTaken(tbl, iid) == \E r \in tbl : r.iid = iid

(***************************************************************************)
(* fr_build_db.process_speaker_data, lines 8-75.                           *)
(***************************************************************************)
\* lines 45-66: the INSERTs of one file in the open transaction; raised when
\* an INSERT met sqlite3.IntegrityError
RECURSIVE FrInsertSpeeches(_, _, _, _)
FrInsertSpeeches(speeches, pending, member_id, deputy_name) ==
    IF speeches = <<>> THEN [raised |-> FALSE, pending |-> pending]
    ELSE LET speech_text == Strip(Head(speeches).text)
         IN  IF speech_text = <<>>
             THEN FrInsertSpeeches(Tail(speeches), pending, member_id,
                                   deputy_name)
             ELSE IF IidTaken(pending, member_id)
             THEN [raised |-> TRUE, pending |-> pending]
             ELSE FrInsertSpeeches(Tail(speeches),
                      pending \cup {SpeechesRow(member_id, deputy_name,
                                                speech_text)},
                      member_id, deputy_name)

\* A faulty variant of FrRollback: the rows of the open transaction stay.
FrNoRollback(committed, pending) == pending

\* line 65: db_connection.rollback() leaves the committed rows
FrRollback(committed, pending) == committed

\* A faulty variant of FrSuccessor: every file takes an id.
FrSuccessorAlways(person_id, returned) == person_id + 1

\* lines 157-161: the id of the next file, after a file came to returned
FrSuccessor(person_id, returned) ==
    IF returned THEN person_id + 1 ELSE person_id

FrProcessSpeakerData(file, tbl, person_id) ==
    IF ETparse(file) # "no"
    THEN IF ETparse(file) \in CaughtAtParse
         THEN Returned(FALSE, tbl) ELSE Raised(ETparse(file), tbl)
    ELSE IF "name" \notin DOMAIN file.attrib
    THEN Returned(FALSE, tbl)
    ELSE LET ins == FrInsertSpeeches(file.speeches, tbl, person_id,
                                     file.attrib.name)
         IN  IF ins.raised
             THEN Returned(FALSE, FrRollback(tbl, ins.pending))
             ELSE Returned(TRUE, ins.pending)

\* fr_build_db.main, line 146: the file names the program takes
FrMatches(filename) ==
    /\ EndsWith(filename, DotXml)
    /\ \/ StartsWith(filename, <<"m", "m", "e", "_">>)
       \/ StartsWith(filename, <<"m", "_">>)

(***************************************************************************)
(* uk_build_db.process_speaker_data, lines 8-70.                           *)
(***************************************************************************)
DigitValue ==
    ("0" :> 0) @@ ("1" :> 1) @@ ("2" :> 2) @@ ("3" :> 3) @@ ("4" :> 4) @@
    ("5" :> 5) @@ ("6" :> 6) @@ ("7" :> 7) @@ ("8" :> 8) @@ ("9" :> 9)

IsDigit(c) == c \in DOMAIN DigitValue

\* int(t) raises ValueError
IntValueError(t) ==
    \/ Strip(t) = <<>>
    \/ \E k \in 1..Len(Strip(t)) : ~IsDigit(Strip(t)[k])

\* int(t) for a str of decimal digits
RECURSIVE IntOfDigits(_)
IntOfDigits(t) ==
    IF t = <<>> THEN 0
    ELSE 10 * IntOfDigits(SubSeq(t, 1, Len(t) - 1)) + DigitValue[t[Len(t)]]

int(t) == IntOfDigits(Strip(t))

\* " ".join(parts)
RECURSIVE JoinWithSpace(_)
JoinWithSpace(parts) ==
    IF parts = <<>> THEN <<>>
    ELSE IF Len(parts) = 1 THEN parts[1]
    ELSE parts[1] \o <<" ">> \o JoinWithSpace(Tail(parts))

\* lines 48-57: the stripped, non-empty <p> texts of all speeches of the file
RECURSIVE AllSpeechText(_)
AllSpeechText(speeches) ==
    IF speeches = <<>> THEN <<>>
    ELSE SelectSeq([k \in 1..Len(Head(speeches).paragraphs) |->
                        Strip(Head(speeches).paragraphs[k])],
                   LAMBDA paragraph_text : paragraph_text # <<>>)
         \o AllSpeechText(Tail(speeches))

UkProcessSpeakerData(file, tbl) ==
    IF ETparse(file) # "no"
    THEN IF ETparse(file) \in CaughtAtParse
         THEN Returned(FALSE, tbl) ELSE Raised(ETparse(file), tbl)
    ELSE IF \/ "member_id" \notin DOMAIN file.attrib
            \/ IntValueError(file.attrib.member_id)
            \/ "member_name" \notin DOMAIN file.attrib
    THEN Returned(FALSE, tbl)
    ELSE LET member_id == int(file.attrib.member_id)
             full_speech_text ==
                 Strip(JoinWithSpace(AllSpeechText(file.speeches)))
         IN  IF IidTaken(tbl, member_id)
             THEN Returned(TRUE, tbl)
             ELSE Returned(TRUE, tbl \cup {SpeechesRow(member_id,
                               file.attrib.member_name, full_speech_text)})

\* uk_build_db.main, line 138: the file names the program takes
UkMatches(filename) ==
    /\ EndsWith(filename, DotXml)
    /\ Len(filename) >= 10
    /\ \A k \in 1..5 : IsDigit(filename[k])
    /\ filename[6] = "_"

(***************************************************************************)
(* Input directories of the two database builders.                         *)
(***************************************************************************)
MBoName == <<"M", ".", " ", "B", "o">>

\* <deputy> files as fr_deputy_speeches writes them
FrSpeech(date, text) == [attrib |-> [date |-> date], text |-> text]

\* one speech
FrBo ==
    [name     |-> <<"m", "_", "b", "o", ".", "x", "m", "l">>,
     xml      |-> "ok",
     attrib   |-> [name |-> MBoName],
     speeches |-> <<FrSpeech(Day1, <<"a", " ">>)>>]

\* one speech with text and one without
FrAda ==
    [name     |-> <<"m", "m", "e", "_", "a", "d", "a", ".", "x", "m", "l">>,
     xml      |-> "ok",
     attrib   |-> [name |-> Ada],
     speeches |-> <<FrSpeech(Day1, <<" ">>), FrSpeech(Day2, <<"b">>)>>]

\* two speeches with text
FrSmith ==
    [name     |-> <<"m", "_", "s", "m", "i", "t", "h", ".", "x", "m", "l">>,
     xml      |-> "ok",
     attrib   |-> [name |-> ASmith],
     speeches |-> <<FrSpeech(Day1, <<"a">>), FrSpeech(Day2, <<"b">>)>>]

\* not well-formed XML
FrBad ==
    [name     |-> <<"m", "_", "b", "a", "d", ".", "x", "m", "l">>,
     xml      |-> "malformed",
     attrib   |-> [name |-> Bo],
     speeches |-> <<>>]

\* a root without the attribute name
FrNoName ==
    [name     |-> <<"m", "m", "e", "_", "x", ".", "x", "m", "l">>,
     xml      |-> "ok",
     attrib   |-> [total_speeches |-> <<"1">>],
     speeches |-> <<FrSpeech(Day1, <<"a">>)>>]

\* a file the name pattern leaves out
Notes ==
    [name     |-> <<"n", "o", "t", "e", "s", ".", "t", "x", "t">>,
     xml      |-> "malformed",
     attrib   |-> [name |-> Bo],
     speeches |-> <<>>]

FrFiles == {FrBo, FrAda, FrSmith, FrBad, FrNoName, Notes}

\* <speeches> files as split_hansard writes them
UkSpeech(paragraphs) == [paragraphs |-> paragraphs]

UkSmith ==
    [name     |-> <<"0", "0", "0", "0", "1", "_", "A", "_", "_", "S", "m",
                    "i", "t", "h", ".", "x", "m", "l">>,
     xml      |-> "ok",
     attrib   |-> [member_id |-> <<"0", "0", "0", "0", "1">>,
                   member_name |-> <<"A", "_", "_", "S", "m", "i", "t", "h">>],
     speeches |-> <<UkSpeech(<<<<"a", " ">>, <<" ">>>>),
                    UkSpeech(<<<<"b">>>>)>>]

UkBo ==
    [name     |-> <<"0", "0", "0", "0", "7", "_", "B", "o", ".", "x", "m", "l">>,
     xml      |-> "ok",
     attrib   |-> [member_id |-> <<"0", "0", "0", "0", "7">>,
                   member_name |-> Bo],
     speeches |-> <<UkSpeech(<<<<"a">>>>)>>]

\* the member of UkBo under another file name, with another speech
UkBoAgain ==
    [name     |-> <<"0", "0", "0", "0", "8", "_", "B", "o", ".", "x", "m", "l">>,
     xml      |-> "ok",
     attrib   |-> [member_id |-> <<"7">>, member_name |-> Bo],
     speeches |-> <<UkSpeech(<<<<"b">>>>)>>]

\* not well-formed XML
UkBad ==
    [name     |-> <<"0", "0", "0", "0", "2", "_", "b", "a", "d",
                    ".", "x", "m", "l">>,
     xml      |-> "malformed",
     attrib   |-> [member_id |-> <<"2">>, member_name |-> Bo],
     speeches |-> <<>>]

\* a root without the attribute member_id
UkNoId ==
    [name     |-> <<"0", "0", "0", "0", "3", "_", "x", ".", "x", "m", "l">>,
     xml      |-> "ok",
     attrib   |-> [member_name |-> Ada],
     speeches |-> <<UkSpeech(<<<<"a">>>>)>>]

\* a member_id that is no number, as split_hansard writes for a speech
\* without person_id
UkUnknown ==
    [name     |-> <<"0", "0", "0", "0", "4", "_", "x", ".", "x", "m", "l">>,
     xml      |-> "ok",
     attrib   |-> [member_id |-> unknownId, member_name |-> Ada],
     speeches |-> <<UkSpeech(<<<<"a">>>>)>>]

\* a file the name pattern leaves out
UkShortId ==
    [name     |-> <<"7", "_", "B", "o", ".", "x", "m", "l">>,
     xml      |-> "ok",
     attrib   |-> [member_id |-> <<"7">>, member_name |-> Bo],
     speeches |-> <<UkSpeech(<<<<"a">>>>)>>]

UkFiles == {UkSmith, UkBo, UkBoAgain, UkBad, UkNoId, UkUnknown, UkShortId}

\* os.listdir: up to MaxFiles files of the directory, in any order
Listings(files) ==
    {fs \in UNION {[1..n -> files] : n \in 0..MaxFiles} :
        \A j, k \in 1..Len(fs) : j # k => fs[j] # fs[k]}

(***************************************************************************)
(* The two database builders, from the connection to the summary.          *)
(***************************************************************************)
Builders == {"fr_build_db", "uk_build_db"}

\* lines 120-139 of both: a new database file, the table created, the
\* counters at their first values
InitBuild ==
    /\ prog \in Builders
    /\ listing \in Listings(IF prog = "fr_build_db" THEN FrFiles ELSE UkFiles)
    /\ xml_files = IF prog = "fr_build_db" THEN <<>> ELSE listing
    /\ tpc = IF prog = "fr_build_db" THEN "list" ELSE "files"
    /\ tidx = 1
    /\ table = {}
    /\ person_id_counter = 1
    /\ tcounts = NoFileCounts
    /\ reported = {}
    /\ handled = <<>>
    /\ use_id = FALSE
    /\ speeches_by_deputy = <<>>
    /\ display_name = [k \in {} |-> <<>>]
    /\ outDir = [n \in {} |-> 0]
    /\ builds = 1
    /\ earlier = NoEarlier

NamesOf(files) == {files[k].name : k \in 1..Len(files)}

\* fr_build_db.main, lines 141-153: the matching file names, sorted
FrListFiles ==
    /\ prog = "fr_build_db"
    /\ tpc = "list"
    /\ LET matching == SelectSeq(listing, LAMBDA file : FrMatches(file.name))
       IN  /\ xml_files' = SortByName(matching)
           /\ tcounts' = [tcounts EXCEPT
                            !.skipped = Len(listing) - Len(matching)]
           /\ reported' = NamesOf(listing) \ NamesOf(matching)
    /\ tpc' = "files"
    /\ UNCHANGED <<prog, listing, tidx, table, person_id_counter, handled,
                   deputyVars>>
    /\ UNCHANGED rerunVars
    /\ UNCHANGED notTree

\* the loop of main after a call of process_speaker_data came to r; an
\* exception goes to the except clauses of main, which end the program
AfterProcessing(file, r) ==
    /\ handled' = Append(handled, file.name)
    /\ table' = r.table
    /\ tidx' = tidx + 1
    /\ IF r.raised # "no"
       THEN /\ tpc' = "raised"
            /\ UNCHANGED <<tcounts, reported, person_id_counter>>
       ELSE /\ tpc' = tpc
            /\ IF r.returned
               THEN /\ tcounts' = [tcounts EXCEPT !.processed = @ + 1]
                    /\ UNCHANGED reported
               ELSE /\ tcounts' = [tcounts EXCEPT !.skipped = @ + 1]
                    /\ reported' = reported \cup {file.name}
            /\ person_id_counter' =
                  IF prog = "fr_build_db"
                  THEN FrSuccessor(person_id_counter, r.returned)
                  ELSE person_id_counter

\* fr_build_db.main, lines 155-161: one pass of the loop
FrProcessFile ==
    /\ prog = "fr_build_db"
    /\ tpc = "files"
    /\ tidx <= Len(xml_files)
    /\ AfterProcessing(xml_files[tidx],
                       FrProcessSpeakerData(xml_files[tidx], table,
                                            person_id_counter))
    /\ UNCHANGED <<prog, listing, xml_files, deputyVars>>
    /\ UNCHANGED rerunVars
    /\ UNCHANGED notTree

\* uk_build_db.main, lines 136-146: one pass of the loop
UkProcessFile ==
    /\ prog = "uk_build_db"
    /\ tpc = "files"
    /\ tidx <= Len(xml_files)
    /\ IF UkMatches(xml_files[tidx].name)
       THEN AfterProcessing(xml_files[tidx],
                            UkProcessSpeakerData(xml_files[tidx], table))
       ELSE /\ tcounts' = [tcounts EXCEPT !.skipped = @ + 1]
            /\ reported' = reported \cup {xml_files[tidx].name}
            /\ tidx' = tidx + 1
            /\ UNCHANGED <<tpc, table, person_id_counter, handled>>
    /\ UNCHANGED <<prog, listing, xml_files, deputyVars>>
    /\ UNCHANGED rerunVars
    /\ UNCHANGED notTree

\* both: the summary after the loop and conn.close() of the finally clause
BuildFinish ==
    /\ prog \in Builders
    /\ tpc = "files"
    /\ tidx > Len(xml_files)
    /\ tpc' = "done"
    /\ UNCHANGED <<prog, listing, xml_files, tidx, table, person_id_counter,
                   tcounts, reported, handled, deputyVars>>
    /\ UNCHANGED rerunVars
    /\ UNCHANGED notTree

\* the program is started again on the database file of the run before,
\* after files were added to the source directory: lines 120-139 of both
\* (CREATE TABLE IF NOT EXISTS keeps the rows; the counters start anew)
BuildAgain ==
    /\ prog \in Builders
    /\ tpc = "done"
    /\ builds < MaxRuns
    /\ \E added \in Listings(IF prog = "fr_build_db" THEN FrFiles
                                                     ELSE UkFiles) :
          /\ added # <<>>
          /\ Len(listing) + Len(added) <= MaxFiles
          /\ \A k \in 1..Len(added) : added[k].name \notin NamesOf(listing)
          /\ listing' = listing \o added
          /\ xml_files' = IF prog = "fr_build_db" THEN <<>>
                                                  ELSE listing \o added
    /\ tpc' = IF prog = "fr_build_db" THEN "list" ELSE "files"
    /\ tidx' = 1
    /\ person_id_counter' = 1
    /\ tcounts' = NoFileCounts
    /\ reported' = {}
    /\ handled' = <<>>
    /\ builds' = builds + 1
    /\ earlier' = [listing |-> listing, table |-> table]
    /\ UNCHANGED <<prog, table, deputyVars>>
    /\ UNCHANGED notTree

NextBuild ==
    \/ FrListFiles
    \/ FrProcessFile
    \/ UkProcessFile
    \/ BuildFinish
    \/ BuildAgain

(***************************************************************************)
(* fr_deputy_speeches: the string helpers.                                 *)
(***************************************************************************)
\* t[from:to] of Python, for 0 <= from <= to
Slice(t, from, to) ==
    SubSeq(t, from + 1, IF to < Len(t) THEN to ELSE Len(t))

\* sub in t
Contains(t, sub) ==
    \E k \in 1..(Len(t) - Len(sub) + 1) : SubSeq(t, k, k + Len(sub) - 1) = sub

\* len(t.split())
RECURSIVE WordCount(_)
WordCount(t) ==
    IF t = <<>> THEN 0
    ELSE (IF /\ Head(t) \notin Whitespace
             /\ (Len(t) = 1 \/ t[2] \in Whitespace)
          THEN 1 ELSE 0) + WordCount(Tail(t))

\* line 30: normalize("NFKD", c).encode("ascii", "ignore") for one character
AsciiOf(c) ==
    CASE c = "é" -> <<"e">>
      [] c = "É" -> <<"E">>
      [] OTHER   -> <<c>>

RECURSIVE ToAscii(_)
ToAscii(t) == IF t = <<>> THEN <<>> ELSE AsciiOf(Head(t)) \o ToAscii(Tail(t))

\* [\w\s-] of line 31, for an ASCII character
IsWordSpaceOrHyphen(c) == IsAlnum(c) \/ c \in Whitespace \cup {"_", "-"}

\* re.sub(r"[\s]+", "_", t) of line 32
RECURSIVE WhitespaceRunsToUnderscore(_)
WhitespaceRunsToUnderscore(t) ==
    IF t = <<>> THEN <<>>
    ELSE IF Head(t) \in Whitespace
         THEN IF Len(t) > 1 /\ t[2] \in Whitespace
              THEN WhitespaceRunsToUnderscore(Tail(t))
              ELSE <<"_">> \o WhitespaceRunsToUnderscore(Tail(t))
         ELSE <<Head(t)>> \o WhitespaceRunsToUnderscore(Tail(t))

\* lines 25-32
slugify(text) ==
    WhitespaceRunsToUnderscore(
        Lower(Strip(SelectSeq(ToAscii(text), IsWordSpaceOrHyphen))))

\* Path.stem of a name that ends in .xml
Stem(filename) == SubSeq(filename, 1, Len(filename) - Len(DotXml))

(***************************************************************************)
(* fr_deputy_speeches.extract_speeches, lines 68-159.                      *)
(***************************************************************************)
\* --min-words, line 61
MinWords == 5

President  == <<"p", "r", "é", "s", "i", "d", "e", "n", "t">>
Presidence == <<"p", "r", "é", "s", "i", "d", "e", "n", "c", "e">>

\* the exceptions the except clauses of lines 76-81 catch: every one
ExtractCatches(exc) == TRUE

\* lines 83-93: the date of the sitting, or the stem of the file name
SessionDate(file) ==
    IF file.dateSeance # <<>>
    THEN LET date_str == Slice(file.dateSeance, 0, 8)
         IN  Slice(date_str, 0, 4) \o <<"-">> \o Slice(date_str, 4, 6)
             \o <<"-">> \o Slice(date_str, 6, 8)
    ELSE Stem(file.name)

\* the text of an optional child element, <<>> when there is none
ChildText(el, tag) == IF tag \in DOMAIN el THEN el[tag] ELSE <<>>

\* lines 116-154 for one <orateur> of a paragraphe: what is yielded, as a
\* sequence of no or one tuple; src tells the place in the input
YieldOfOrateur(file, j, k, by_id, min_words) ==
    LET paragraphe  == file.paragraphes[j]
        orateur     == paragraphe.orateurs[k]
        name        == Strip(ChildText(orateur, "nom"))
        speaker_id  == Strip(ChildText(orateur, "id"))
        speech_text == Strip(paragraphe.texte)
    IN  IF ChildText(orateur, "nom") = <<>> THEN <<>>
        ELSE IF \/ Contains(Lower(name), President)
                \/ Contains(Lower(name), Presidence) THEN <<>>
        ELSE IF WordCount(speech_text) < min_words THEN <<>>
        ELSE <<[key   |-> IF by_id /\ speaker_id # <<>>
                          THEN speaker_id ELSE name,
                name  |-> name,
                title |-> Strip(ChildText(orateur, "qualite")),
                date  |-> SessionDate(file),
                time  |-> paragraphe.stime,
                text  |-> speech_text,
                src   |-> <<file.name, j, k>>]>>

RECURSIVE YieldsOfOrateurs(_, _, _, _, _)
YieldsOfOrateurs(file, j, k, by_id, min_words) ==
    IF k > Len(file.paragraphes[j].orateurs) THEN <<>>
    ELSE YieldOfOrateur(file, j, k, by_id, min_words)
         \o YieldsOfOrateurs(file, j, k + 1, by_id, min_words)

\* lines 98-154 from the j-th paragraphe on
RECURSIVE YieldsOfParagraphes(_, _, _, _)
YieldsOfParagraphes(file, j, by_id, min_words) ==
    IF j > Len(file.paragraphes) THEN <<>>
    ELSE (IF \/ "orateurs" \notin DOMAIN file.paragraphes[j]
             \/ "texte" \notin DOMAIN file.paragraphes[j]
          THEN <<>>
          ELSE YieldsOfOrateurs(file, j, 1, by_id, min_words))
         \o YieldsOfParagraphes(file, j + 1, by_id, min_words)

\* the generator as a whole: what it yields, whether it printed an error
\* and the exception that leaves it ("no": none)
extract_speeches(file, by_id, min_words) ==
    IF ETparse(file) # "no"
    THEN IF ExtractCatches(ETparse(file))
         THEN [yields |-> <<>>, error |-> TRUE, raised |-> "no"]
         ELSE [yields |-> <<>>, error |-> FALSE, raised |-> ETparse(file)]
    ELSE [yields |-> YieldsOfParagraphes(file, 1, by_id, min_words),
          error  |-> FALSE,
          raised |-> "no"]

(***************************************************************************)
(* fr_deputy_speeches.main, lines 243-267: the two dicts.                  *)
(***************************************************************************)
KeysOf(by) == {by[k].key : k \in 1..Len(by)}

\* speeches_by_deputy[key].append(speech), on the defaultdict
AppendSpeech(by, key, speech) ==
    IF key \in KeysOf(by)
    THEN [k \in 1..Len(by) |->
            IF by[k].key = key
            THEN [by[k] EXCEPT !.speeches = Append(@, speech)]
            ELSE by[k]]
    ELSE Append(by, [key |-> key, speeches |-> <<speech>>])

SpeechDict(y) ==
    [title |-> y.title, date |-> y.date, time |-> y.time, text |-> y.text,
     src |-> y.src]

\* lines 255-264 for the tuples one file yields
RECURSIVE Collect(_, _, _)
Collect(yields, by, names) ==
    IF yields = <<>> THEN [by |-> by, names |-> names]
    ELSE LET y == Head(yields)
         IN  Collect(Tail(yields),
                     AppendSpeech(by, y.key, SpeechDict(y)),
                     (y.key :> y.name) @@ names)

(***************************************************************************)
(* fr_deputy_speeches.write_deputy_xml, lines 164-194.                     *)
(***************************************************************************)
\* line 175: list.sort by the date str; equal dates keep their order
RECURSIVE InsertByDate(_, _)
InsertByDate(sorted, sp) ==
    IF sorted = <<>> THEN <<sp>>
    ELSE IF StrLess(sp.date, Head(sorted).date)
         THEN <<sp>> \o sorted
         ELSE <<Head(sorted)>> \o InsertByDate(Tail(sorted), sp)

RECURSIVE SortByDate(_)
SortByDate(speeches) ==
    IF speeches = <<>> THEN <<>>
    ELSE InsertByDate(SortByDate(SubSeq(speeches, 1, Len(speeches) - 1)),
                      speeches[Len(speeches)])

\* the output directory after write_deputy_xml(output_dir, deputy_name,
\* speeches): tree.write replaces a file of that name
write_deputy_xml(dir, deputy_name, speeches) ==
    LET fname == slugify(deputy_name) \o DotXml
    IN  (fname :> [name |-> deputy_name, speeches |-> SortByDate(speeches)])
        @@ dir

(***************************************************************************)
(* Input directories of fr_deputy_speeches: comptes rendus.                *)
(***************************************************************************)
\* a text of n one-letter words
RECURSIVE Sentence(_, _)
Sentence(c, n) ==
    IF n = 1 THEN <<c>> ELSE Sentence(c, n - 1) \o <<" ", c>>

ASmithPlain == <<"A", " ", "S", "m", "i", "t", "h">>
Ade         == <<"A", "d", "é">>
LePresident == <<"l", "e", " ">> \o President

Paragraphe(orateurs, texte) ==
    [orateurs |-> orateurs, texte |-> texte, stime |-> <<>>]

\* sitting of 2021-02-01: A. Smith twice, the second time under a title
\* that sorts first; the president; Bo with four words
Cri1 ==
    [name       |-> <<"C", "R", "1", ".", "x", "m", "l">>,
     xml        |-> "ok",
     dateSeance |-> <<"2", "0", "2", "1", "0", "2", "0", "1",
                      "1", "5", "0", "0", "0", "0">>,
     paragraphes |->
        <<Paragraphe(<<[nom |-> ASmith, id |-> Iid7, qualite |-> <<"b">>]>>,
                     Sentence("a", MinWords)),
          Paragraphe(<<[nom |-> LePresident]>>, Sentence("b", MinWords)),
          Paragraphe(<<[nom |-> ASmith, qualite |-> <<"a">>]>>,
                     Sentence("c", MinWords)),
          Paragraphe(<<[nom |-> Bo]>>, Sentence("d", MinWords - 1))>>]

\* sitting of 2021-01-05: "A Smith" and Bo
Cri2 ==
    [name       |-> <<"C", "R", "2", ".", "x", "m", "l">>,
     xml        |-> "ok",
     dateSeance |-> <<"2", "0", "2", "1", "0", "1", "0", "5",
                      "1", "5", "0", "0", "0", "0">>,
     paragraphes |->
        <<Paragraphe(<<[nom |-> ASmithPlain]>>, Sentence("e", MinWords)),
          Paragraphe(<<[nom |-> Bo, id |-> <<"8">>]>>,
                     <<" ">> \o Sentence("h", MinWords + 1))>>]

\* not well-formed XML
Cri3 ==
    [name       |-> <<"C", "R", "3", ".", "x", "m", "l">>,
     xml        |-> "malformed",
     dateSeance |-> <<>>,
     paragraphes |-> <<>>]

\* no dateSeance; a paragraphe without orateurs, an orateur without nom,
\* and Adé
Cri4 ==
    [name       |-> <<"C", "R", "4", ".", "x", "m", "l">>,
     xml        |-> "ok",
     dateSeance |-> <<>>,
     paragraphes |->
        <<[texte |-> Sentence("a", MinWords), stime |-> <<>>],
          Paragraphe(<<[id |-> Iid7], [nom |-> Ade]>>,
                     Sentence("b", MinWords))>>]

CriFiles == {Cri1, Cri2, Cri3, Cri4}

(***************************************************************************)
(* fr_deputy_speeches.main, lines 199-285.                                 *)
(***************************************************************************)
\* lines 199-211: the input directory is there; --use-id given or not
InitDeputy ==
    /\ prog = "fr_deputy_speeches"
    /\ listing \in Listings(CriFiles)
    /\ xml_files = <<>>
    /\ tpc = "list"
    /\ tidx = 1
    /\ table = {}
    /\ person_id_counter = 1
    /\ tcounts = NoFileCounts
    /\ reported = {}
    /\ handled = <<>>
    /\ use_id \in BOOLEAN
    /\ speeches_by_deputy = <<>>
    /\ display_name = [k \in {} |-> <<>>]
    /\ outDir = [n \in {} |-> 0]
    /\ builds = 1
    /\ earlier = NoEarlier

\* lines 213-241: the sorted list of the files; without files the
\* program returns 1
DeputyFindFiles ==
    /\ prog = "fr_deputy_speeches"
    /\ tpc = "list"
    /\ xml_files' = SortByName(listing)
    /\ tpc' = IF listing = <<>> THEN "done" ELSE "files"
    /\ UNCHANGED <<prog, listing, tidx, table, person_id_counter, tcounts,
                   reported, handled, deputyVars>>
    /\ UNCHANGED rerunVars
    /\ UNCHANGED notTree

\* lines 250-267: one pass of the loop over the files
DeputyCollectFile ==
    /\ prog = "fr_deputy_speeches"
    /\ tpc = "files"
    /\ tidx <= Len(xml_files)
    /\ LET file == xml_files[tidx]
           gen  == extract_speeches(file, use_id, MinWords)
           got  == Collect(gen.yields, speeches_by_deputy, display_name)
       IN  /\ handled' = Append(handled, file.name)
           /\ speeches_by_deputy' = got.by
           /\ display_name' = got.names
           /\ reported' = IF gen.error THEN reported \cup {file.name}
                                       ELSE reported
           /\ tcounts' = IF gen.yields # <<>>
                         THEN [tcounts EXCEPT !.processed = @ + 1]
                         ELSE tcounts
           /\ tpc' = IF gen.raised # "no" THEN "raised" ELSE tpc
    /\ tidx' = tidx + 1
    /\ UNCHANGED <<prog, listing, xml_files, table, person_id_counter,
                   use_id, outDir>>
    /\ UNCHANGED rerunVars
    /\ UNCHANGED notTree

\* lines 269-279: after the loop; without speeches the program returns 1
DeputyEndCollect ==
    /\ prog = "fr_deputy_speeches"
    /\ tpc = "files"
    /\ tidx > Len(xml_files)
    /\ tpc' = IF speeches_by_deputy = <<>> THEN "done" ELSE "write"
    /\ tidx' = 1
    /\ UNCHANGED <<prog, listing, xml_files, table, person_id_counter,
                   tcounts, reported, handled, deputyVars>>
    /\ UNCHANGED rerunVars
    /\ UNCHANGED notTree

\* lines 280-282: one pass of the loop over the dict
DeputyWrite ==
    /\ prog = "fr_deputy_speeches"
    /\ tpc = "write"
    /\ tidx <= Len(speeches_by_deputy)
    /\ outDir' = write_deputy_xml(outDir,
                                  display_name[speeches_by_deputy[tidx].key],
                                  speeches_by_deputy[tidx].speeches)
    /\ tidx' = tidx + 1
    /\ UNCHANGED <<prog, listing, xml_files, tpc, table, person_id_counter,
                   tcounts, reported, handled, use_id, speeches_by_deputy,
                   display_name>>
    /\ UNCHANGED rerunVars
    /\ UNCHANGED notTree

\* lines 284-285: the program returns 0
DeputyDone ==
    /\ prog = "fr_deputy_speeches"
    /\ tpc = "write"
    /\ tidx > Len(speeches_by_deputy)
    /\ tpc' = "done"
    /\ UNCHANGED <<prog, listing, xml_files, tidx, table, person_id_counter,
                   tcounts, reported, handled, deputyVars>>
    /\ UNCHANGED rerunVars
    /\ UNCHANGED notTree

NextDeputy ==
    \/ DeputyFindFiles
    \/ DeputyCollectFile
    \/ DeputyEndCollect
    \/ DeputyWrite
    \/ DeputyDone

(***************************************************************************)
(* One run of one of the three programs over one input directory.          *)
(***************************************************************************)
InitTree ==
    /\ IngestInit
    /\ FnIdle
    /\ SplitIdle
    /\ (InitBuild \/ InitDeputy)

NextTree == NextBuild \/ NextDeputy

SpecTree == InitTree /\ [][NextTree]_vars

(***************************************************************************)
(* Helpers of the properties of the programs that read whole trees: the    *)
(* outcome of a whole run over a list of files, in one step.               *)
(***************************************************************************)
\* the file names the program of the run takes
Matches(file) ==
    CASE prog = "fr_build_db" -> FrMatches(file.name)
      [] prog = "uk_build_db" -> UkMatches(file.name)
      [] OTHER                -> EndsWith(file.name, DotXml)

\* not well-formed, or without a root attribute the program of the run needs
Unusable(file) ==
    \/ file.xml = "malformed"
    \/ prog = "fr_build_db" /\ "name" \notin DOMAIN file.attrib
    \/ prog = "uk_build_db" /\ \/ "member_id" \notin DOMAIN file.attrib
                               \/ "member_name" \notin DOMAIN file.attrib

\* the table and the counter after the loop of fr_build_db over files
RECURSIVE FrBuild(_, _, _)
FrBuild(files, tbl, person_id) ==
    IF files = <<>> THEN [table |-> tbl, person_id |-> person_id]
    ELSE LET r == FrProcessSpeakerData(Head(files), tbl, person_id)
         IN  FrBuild(Tail(files), r.table,
                     FrSuccessor(person_id, r.returned))

\* the table after the loop of uk_build_db over files
RECURSIVE UkBuild(_, _)
UkBuild(files, tbl) ==
    IF files = <<>> THEN tbl
    ELSE UkBuild(Tail(files),
                 IF UkMatches(Head(files).name)
                 THEN UkProcessSpeakerData(Head(files), tbl).table
                 ELSE tbl)

\* the two dicts after the loop of fr_deputy_speeches over files
RECURSIVE CollectAll(_, _, _)
CollectAll(files, by, names) ==
    IF files = <<>> THEN [by |-> by, names |-> names]
    ELSE LET got == Collect(extract_speeches(Head(files), use_id,
                                             MinWords).yields, by, names)
         IN  CollectAll(Tail(files), got.by, got.names)

\* the listing without its unusable files
Usable == SelectSeq(listing, LAMBDA file : ~Unusable(file))

(***************************************************************************)
(* C17.  In fr_build_db, uk_build_db and fr_deputy_speeches no run is      *)
(* ended by a file that is not well-formed or lacks a root attribute.      *)
(* When the run has ended, every matching file of the directory was given  *)
(* to the processing function once, every unusable one among them was      *)
(* reported, and what the run stored or collected is what a run over the   *)
(* directory without the unusable files stores or collects.                *)
(***************************************************************************)
C17_UnusableFileSkipped ==
    /\ tpc # "raised"
    /\ tpc \in {"write", "done"} =>
          LET matching == SelectSeq(listing, Matches)
          IN  /\ Len(handled) = Len(matching)
              /\ \A k \in 1..Len(matching) :
                    /\ \E j \in 1..Len(handled) : handled[j] = matching[k].name
                    /\ Unusable(matching[k]) =>
                          matching[k].name \in reported
              /\ prog = "fr_build_db" =>
                    /\ table = FrBuild(SortByName(SelectSeq(Usable, Matches)),
                                       earlier.table, 1).table
                    /\ person_id_counter =
                          FrBuild(SortByName(SelectSeq(Usable, Matches)),
                                  earlier.table, 1).person_id
              /\ prog = "uk_build_db" =>
                    table = UkBuild(Usable, earlier.table)
              /\ prog = "fr_deputy_speeches" =>
                    /\ speeches_by_deputy =
                          CollectAll(SortByName(Usable), <<>>,
                                     [k \in {} |-> <<>>]).by
                    /\ display_name =
                          CollectAll(SortByName(Usable), <<>>,
                                     [k \in {} |-> <<>>]).names

\* fr_build_db ended; m_bad.xml, not well-formed, was reported, and the
\* speech of m_bo.xml, which comes after it, is in the table
C17_Witness ==
    /\ prog = "fr_build_db"
    /\ tpc = "done"
    /\ Len(listing) = MaxFiles
    /\ FrBad.name \in reported
    /\ \E k \in 1..Len(xml_files) : k > 1 /\ xml_files[k] = FrBo
                                          /\ xml_files[k - 1] = FrBad
    /\ \E r \in table : r.name = MBoName /\ r.speech_text = <<"a">>

(***************************************************************************)
(* C18.  When fr_deputy_speeches has ended, every speech of the input that *)
(* passes the filters (a speaker with a name that is not the president's,  *)
(* at least MinWords words) is in the output files exactly once, and the   *)
(* output files hold no other speech.                                      *)
(***************************************************************************)
\* the places <<file name, paragraphe, orateur>> of the speeches that pass
QualifyingOrateurs(paragraphe) ==
    IF "orateurs" \notin DOMAIN paragraphe \/ "texte" \notin DOMAIN paragraphe
    THEN {}
    ELSE {k \in 1..Len(paragraphe.orateurs) :
            /\ "nom" \in DOMAIN paragraphe.orateurs[k]
            /\ ~Contains(Lower(paragraphe.orateurs[k].nom), President)
            /\ ~Contains(Lower(paragraphe.orateurs[k].nom), Presidence)
            /\ WordCount(paragraphe.texte) >= MinWords}

QualifyingIn(file) ==
    IF file.xml # "ok" THEN {}
    ELSE UNION {{<<file.name, j, k>> :
                    k \in QualifyingOrateurs(file.paragraphes[j])} :
                j \in 1..Len(file.paragraphes)}

Qualifying == UNION {QualifyingIn(listing[f]) : f \in 1..Len(listing)}

\* the places in the output files that hold the speech of the place src
WrittenAt(src) ==
    {<<fname, i>> \in
        UNION {{fname} \X (1..Len(outDir[fname].speeches)) :
                  fname \in DOMAIN outDir} :
        outDir[fname].speeches[i].src = src}

C18_EveryQualifyingSpeechOnce ==
    (prog = "fr_deputy_speeches" /\ tpc = "done") =>
        /\ \A src \in Qualifying : Cardinality(WrittenAt(src)) = 1
        /\ \A fname \in DOMAIN outDir :
              \A i \in 1..Len(outDir[fname].speeches) :
                 outDir[fname].speeches[i].src \in Qualifying

(***************************************************************************)
(* C20.  When fr_deputy_speeches has ended, two speeches of one output     *)
(* file that have the same date stand in the order of their titles.        *)
(***************************************************************************)
C20_EqualDatesByTitle ==
    (prog = "fr_deputy_speeches" /\ tpc = "done") =>
        \A fname \in DOMAIN outDir :
            LET sp == outDir[fname].speeches
            IN  \A i, j \in 1..Len(sp) :
                    (i < j /\ sp[i].date = sp[j].date) =>
                        ~StrLess(sp[j].title, sp[i].title)

(***************************************************************************)
(* C26.  In every state of every sequence of runs of populate_database,    *)
(* stopped or not, each row of speeches in the database file carries an    *)
(* iid for which the database file holds a row of members.                 *)
(***************************************************************************)
C26_SpeechHasMember ==
    \A s \in db.speeches : \E m \in db.members : m.iid = s.iid

\* a run is in its loop, the file holds a speech, and the connection holds a
\* member row that is not committed
C26_Witness ==
    /\ pc = "loop"
    /\ db.speeches # {}
    /\ tx.members # db.members
    /\ runs = MaxRuns

(***************************************************************************)
(* C27.  When a run of populate_database has printed its summary, the      *)
(* number of new members and the number of new speeches it printed are the *)
(* numbers of rows of members and of speeches that are in the database     *)
(* file and were not there when the run started.                           *)
(***************************************************************************)
C27_ReportedCountsAreDurable ==
    (pc = "report" /\ summary.printed) =>
        /\ summary.members_added =
              Cardinality(db.members \ run.startDb.members)
        /\ summary.speeches_added =
              Cardinality(db.speeches \ run.startDb.speeches)

(***************************************************************************)
(* C28.  When the identity resolver synthesized an id for a name and a     *)
(* party, no other name and party whose normalised forms (s_talare,        *)
(* s_parti) differ from theirs is given the same id.                       *)
(***************************************************************************)
\* lines 173-174: s_talare and s_parti
Normalised(talare, parti) ==
    <<Lower(SpacesToUnderscores(KeepAlnumOrSpace(talare))),
      IF parti # <<>> THEN Lower(KeepAlnum(parti)) ELSE UnknownParty>>

C28_DistinctInputsDistinctIds ==
    (arg.applied /\ arg.iid = <<>>) =>
        \A talare \in NameInputs, parti \in PartyInputs :
            Normalised(talare, parti) # Normalised(arg.talare, arg.parti) =>
                ResolveIid([iid |-> <<>>, talare |-> talare,
                            parti |-> parti]) # res

(***************************************************************************)
(* C25.  At every point of a run of split_hansard, every speech element    *)
(* iterparse has yielded was serialised in full, with its attributes and   *)
(* content, exactly once, to the output file of its own key and to no      *)
(* other file; and an element is cleared only once that write was made.    *)
(***************************************************************************)
\* the places (file, position) where a piece was written
PlacesOf(piece) ==
    {place \in UNION {{<<name, k>> : k \in 1..Len(outFiles[name].pieces)} :
                        name \in DOMAIN outFiles} :
        outFiles[place[1]].pieces[place[2]] = piece}

\* the places where the speech with this id was written, in full or not
PlacesOfSid(sid) ==
    {place \in UNION {{<<name, k>> : k \in 1..Len(outFiles[name].pieces)} :
                        name \in DOMAIN outFiles} :
        LET piece == outFiles[place[1]].pieces[place[2]]
        IN  /\ piece.kind = "speech"
            /\ "sid" \in DOMAIN piece.elem
            /\ piece.elem.sid = sid}

C25_SerialisedInFullOnceThenCleared ==
    spc # "off" =>
        /\ \A k \in 1..Len(Yielded) :
              /\ Cardinality(PlacesOf(SpeechPiece(Yielded[k]))) = 1
              /\ \A place \in PlacesOf(SpeechPiece(Yielded[k])) :
                    place[1] = SinkFile(KeyOfSpeech(Yielded[k]))
              /\ Yielded[k].sid \in cleared
        /\ \A sid \in cleared : Cardinality(PlacesOfSid(sid)) = 1
        /\ Cardinality(UNION {{<<name, k>> : k \in 1..Len(SpeechesIn(name))} :
                                 name \in DOMAIN outFiles}) = Len(Yielded)

\* the run returned after three speeches of two speakers, from two input
\* files, were written and cleared
C25_Witness ==
    /\ spc = "done"
    /\ Len(Yielded) = 3
    /\ Cardinality(cleared) = 3
    /\ Cardinality(DOMAIN outFiles) = 2
    /\ PlacesOf(SpeechPiece(SpSmithDay2)) # {}

(***************************************************************************)
(* C21.  When the path given as the input directory of split_hansard is    *)
(* missing or is no directory, the run makes no output directory and does  *)
(* not end normally.                                                       *)
(***************************************************************************)
C21_BadInputRootAborts ==
    inputRoot # "dir" => (~outMade /\ spc # "done")

(***************************************************************************)
(* C22.  Every call of process_speaker_data of fr_build_db on a            *)
(* well-formed file with the attribute name and n >= 0 speeches with text  *)
(* returns True and adds n rows with the person id of the call to          *)
(* speeches.                                                               *)
(***************************************************************************)
\* the speeches of a file whose stripped text is not empty
WithText(file) ==
    SelectSeq(file.speeches, LAMBDA speech : Strip(speech.text) # <<>>)

\* the loop of fr_build_db is about to give this file to process_speaker_data
FrAboutToProcess ==
    /\ prog = "fr_build_db"
    /\ tpc = "files"
    /\ tidx <= Len(xml_files)

C22_StoresEverySpeech ==
    [][(/\ FrAboutToProcess
        /\ tidx' = tidx + 1
        /\ ETparse(xml_files[tidx]) = "no"
        /\ "name" \in DOMAIN xml_files[tidx].attrib)
       => /\ tcounts'.processed = tcounts.processed + 1
          /\ table \subseteq table'
          /\ Cardinality(table' \ table) = Len(WithText(xml_files[tidx]))
          /\ \A r \in table' \ table : r.iid = person_id_counter]_vars

(***************************************************************************)
(* C24.  In a run of fr_build_db on an empty store the matching files are  *)
(* handled in ascending order of their names; the k-th file that was       *)
(* processed with success has its rows under the id k, the ids in use are  *)
(* 1 up to the number of successes, a skipped file takes no id, and the    *)
(* table at the end is the same for every order of the directory listing.  *)
(***************************************************************************)
\* the names of the files handled with success, in the order of handling
Succeeded == SelectSeq(handled, LAMBDA name : name \notin reported)

\* the orders in which os.listdir may return the files of a listing
Reorderings(files) ==
    {fs \in [1..Len(files) -> {files[k] : k \in 1..Len(files)}] :
        \A j, k \in 1..Len(fs) : j # k => fs[j] # fs[k]}

C24_IdsByNameOrder ==
    (prog = "fr_build_db" /\ tpc \in {"files", "done"}
                          /\ earlier.table = {}) =>
        /\ \A j, k \in 1..Len(handled) :
              j < k => StrLess(handled[j], handled[k])
        /\ person_id_counter = Len(Succeeded) + 1
        /\ {r.iid : r \in table} \subseteq 1..Len(Succeeded)
        /\ \A k \in 1..Len(Succeeded) :
              \A n \in 1..Len(listing) :
                  listing[n].name = Succeeded[k] =>
                      \A j \in 1..Len(WithText(listing[n])) :
                          SpeechesRow(k, listing[n].attrib.name,
                                      Strip(WithText(listing[n])[j].text))
                              \in table
        /\ tpc = "done" =>
              \A fs \in Reorderings(listing) :
                  FrBuild(SortByName(SelectSeq(fs, Matches)), {}, 1).table
                      = table

\* the run ended: m_bo.xml took the id 1, m_smith.xml was skipped and
\* mme_ada.xml, listed first, took the id 2
C24_Witness ==
    /\ prog = "fr_build_db"
    /\ tpc = "done"
    /\ listing = <<FrAda, FrSmith, FrBo>>
    /\ FrSmith.name \in reported
    /\ person_id_counter = 3
    /\ \E r \in table : r.iid = 1 /\ r.name = MBoName
    /\ \E r \in table : r.iid = 2 /\ r.name = Ada

(***************************************************************************)
(* C29.  When a run of uk_build_db has ended, its table is the table of a  *)
(* run over the same files in any other order of the directory listing.    *)
(***************************************************************************)
C29_TableIndependentOfListingOrder ==
    (prog = "uk_build_db" /\ tpc = "done") =>
        \A fs \in Reorderings(listing) : UkBuild(fs, earlier.table) = table

(***************************************************************************)
(* C30.  When an INSERT of process_speaker_data of fr_build_db fails after *)
(* an earlier INSERT of the same file was made, the table is left as it    *)
(* was before the file, the file is counted as skipped and reported, and   *)
(* the loop goes on: at the end of the run every matching file was handled.*)
(***************************************************************************)
\* an INSERT of this file fails after another INSERT of the file was made
FailsPartWay(file, tbl, person_id) ==
    /\ ETparse(file) = "no"
    /\ "name" \in DOMAIN file.attrib
    /\ LET ins == FrInsertSpeeches(file.speeches, tbl, person_id,
                                   file.attrib.name)
       IN  ins.raised /\ ins.pending # tbl

C30_FailedFileLeavesNoRows ==
    /\ [][(/\ FrAboutToProcess
           /\ tidx' = tidx + 1
           /\ FailsPartWay(xml_files[tidx], table, person_id_counter))
          => /\ table' = table
             /\ tcounts'.skipped = tcounts.skipped + 1
             /\ tcounts'.processed = tcounts.processed
             /\ xml_files[tidx].name \in reported'
             /\ person_id_counter' = person_id_counter
             /\ tpc' = "files"]_vars
    /\ []((prog = "fr_build_db" /\ tpc = "done") =>
             /\ Len(handled) = Len(xml_files)
             /\ \A k \in 1..Len(xml_files) : handled[k] = xml_files[k].name)

\* the run ended: m_smith.xml failed at its second INSERT after the row of
\* m_bo.xml was committed, and the row of mme_ada.xml was stored after it
C30_Witness ==
    /\ prog = "fr_build_db"
    /\ tpc = "done"
    /\ xml_files = <<FrBo, FrSmith, FrAda>>
    /\ FailsPartWay(FrSmith, {SpeechesRow(1, MBoName, <<"a">>)}, 2)
    /\ reported = {FrSmith.name}
    /\ table = {SpeechesRow(1, MBoName, <<"a">>), SpeechesRow(2, Ada, <<"b">>)}

(***************************************************************************)
(* C23.  When a run of fr_build_db or uk_build_db on the database of an    *)
(* earlier run has ended, after files were added to the source directory:  *)
(* the rows of the earlier run are in the table unchanged, no two rows     *)
(* have one id, no new row repeats the name and text of an earlier row,    *)
(* and what a run over the added files alone stores is in the table (for   *)
(* uk_build_db: unless the member id of the row was stored before).        *)
(***************************************************************************)
\* the files added to the directory since the run before
Added == SubSeq(listing, Len(earlier.listing) + 1, Len(listing))

\* what the rows of a table say, apart from the ids
DataOf(tbl) == {<<r.name, r.speech_text>> : r \in tbl}

RerunAdds(program) ==
    (prog = program /\ tpc = "done" /\ builds > 1) =>
        /\ earlier.table \subseteq table
        /\ \A r1, r2 \in table : r1.iid = r2.iid => r1 = r2
        /\ \A r \in table \ earlier.table :
              <<r.name, r.speech_text>> \notin DataOf(earlier.table)
        /\ program = "fr_build_db" =>
              DataOf(FrBuild(SortByName(SelectSeq(Added, Matches)),
                             {}, 1).table) \subseteq DataOf(table)
        /\ program = "uk_build_db" =>
              \A r \in UkBuild(Added, {}) :
                  ~IidTaken(earlier.table, r.iid) => r \in table

C23_RerunAddsNewFiles ==
    RerunAdds("fr_build_db") /\ RerunAdds("uk_build_db")

=============================================================================
